---- MODULE Spec2Model ----
(***************************************************************************)
(* deploy-tar: path resolution (service/path_utils.go) and upload /        *)
(* archive extraction (service/file_service.go) with the status mapping of *)
(* the HTTP and gRPC transports.                                           *)
(*                                                                         *)
(* Strings are sequences of one-character strings, so that the lexical     *)
(* operations of the code (strings.HasPrefix, filepath.Clean, Join, Rel,   *)
(* strings.Contains) are computed on characters exactly as the code does.  *)
(***************************************************************************)
EXTENDS Integers, Sequences, FiniteSets, TLC

\* ------------------------------------------------------------------------
\* Bounds of the model
\* ------------------------------------------------------------------------
\* longest client path string drawn for ResolveAndValidatePath
MaxLen == 7
\* longest destination path string drawn for UploadFile
MaxTargetLen == 5
\* most entries in one tar stream
MaxEntries == 2
\* most parts a file name of the dispatcher's inputs is made of
MaxParts == 3
\* most messages in the stream of a gRPC upload
MaxMsgs == 3

\* characters client paths are made of
PathChars == {"/", ".", "p"}

\* ------------------------------------------------------------------------
\* strings
\* ------------------------------------------------------------------------
HasPrefix(s, p) == Len(p) <= Len(s) /\ SubSeq(s, 1, Len(p)) = p

HasSuffix(s, p) == Len(p) <= Len(s) /\ SubSeq(s, Len(s) - Len(p) + 1, Len(s)) = p

\* strings.TrimSuffix
TrimSuffix(s, p) == IF HasSuffix(s, p) THEN SubSeq(s, 1, Len(s) - Len(p)) ELSE s

\* strings.Contains
Contains(s, k) ==
    \E i \in 1..(Len(s) - Len(k) + 1) : s[i] = k[1] /\ SubSeq(s, i, i + Len(k) - 1) = k

\* ------------------------------------------------------------------------
\* path/filepath (Unix)
\* ------------------------------------------------------------------------
IsAbs(s) == Len(s) > 0 /\ s[1] = "/"

\* the elements of a path between separators, empty elements dropped
RECURSIVE SplitFrom(_, _, _)
SplitFrom(s, i, cur) ==
    IF i > Len(s) THEN (IF cur = <<>> THEN <<>> ELSE <<cur>>)
    ELSE IF s[i] = "/"
         THEN (IF cur = <<>> THEN <<>> ELSE <<cur>>) \o SplitFrom(s, i + 1, <<>>)
         ELSE SplitFrom(s, i + 1, Append(cur, s[i]))

Split(s) == SplitFrom(s, 1, <<>>)

RECURSIVE JoinSegs(_)
JoinSegs(segs) ==
    IF segs = <<>> THEN <<>>
    ELSE IF Len(segs) = 1 THEN segs[1]
    ELSE segs[1] \o <<"/">> \o JoinSegs(Tail(segs))

DotDot == <<".", ".">>

\* filepath.Clean on elements: "." dropped, ".." removes the element before it,
\* ".." at the root dropped, leading ".." of a relative path kept
RECURSIVE CleanSegs(_, _, _)
CleanSegs(segs, rooted, out) ==
    IF segs = <<>> THEN out
    ELSE LET e == Head(segs) IN
         IF e = <<".">> THEN CleanSegs(Tail(segs), rooted, out)
         ELSE IF e = DotDot
              THEN IF out # <<>> /\ out[Len(out)] # DotDot
                   THEN CleanSegs(Tail(segs), rooted, SubSeq(out, 1, Len(out) - 1))
                   ELSE IF rooted THEN CleanSegs(Tail(segs), rooted, out)
                        ELSE CleanSegs(Tail(segs), rooted, Append(out, e))
              ELSE CleanSegs(Tail(segs), rooted, Append(out, e))

Clean(s) ==
    LET out == CleanSegs(Split(s), IsAbs(s), <<>>) IN
    IF IsAbs(s) THEN <<"/">> \o JoinSegs(out)
    ELSE IF out = <<>> THEN <<".">> ELSE JoinSegs(out)

\* filepath.Join of two elements: empty elements ignored, the result cleaned
Join(a, b) ==
    IF a = <<>> /\ b = <<>> THEN <<>>
    ELSE IF a = <<>> THEN Clean(b)
    ELSE IF b = <<>> THEN Clean(a)
    ELSE Clean(a \o <<"/">> \o b)

\* filepath.Dir: the path up to its last separator, cleaned
RECURSIVE LastSep(_, _)
LastSep(s, i) == IF i = 0 THEN 0 ELSE IF s[i] = "/" THEN i ELSE LastSep(s, i - 1)

Dir(s) == Clean(SubSeq(s, 1, LastSep(s, Len(s))))

\* the working directory of the server process (os.Getwd)
Cwd == <<"/", "w">>

\* filepath.Abs
Abs(s) == IF IsAbs(s) THEN Clean(s) ELSE Join(Cwd, s)

RECURSIVE CommonLen(_, _)
CommonLen(a, b) ==
    IF a = <<>> \/ b = <<>> \/ Head(a) # Head(b) THEN 0
    ELSE 1 + CommonLen(Tail(a), Tail(b))

RECURSIVE Ups(_)
Ups(n) == IF n = 0 THEN <<>> ELSE <<DotDot>> \o Ups(n - 1)

\* filepath.Rel: [err, path]
Rel(basepath, targpath) ==
    LET base == Clean(basepath)
        targ == Clean(targpath)
        bs   == IF base = <<".">> THEN <<>> ELSE Split(base)
        ts   == IF targ = <<".">> THEN <<>> ELSE Split(targ)
        n    == CommonLen(bs, ts)
        brest == SubSeq(bs, n + 1, Len(bs))
        trest == SubSeq(ts, n + 1, Len(ts))
    IN  IF targ = base THEN [err |-> FALSE, path |-> <<".">>]
        ELSE IF IsAbs(base) # IsAbs(targ) THEN [err |-> TRUE, path |-> <<>>]
        ELSE IF brest # <<>> /\ brest[1] = DotDot THEN [err |-> TRUE, path |-> <<>>]
        ELSE [err |-> FALSE, path |-> JoinSegs(Ups(Len(brest)) \o trest)]


\* ------------------------------------------------------------------------
\* the filesystem: a function from the elements of an absolute path to a node;
\* the root <<>> is always a directory, and every node's parent is a directory
\* ------------------------------------------------------------------------
Key(path) == Split(Abs(path))

Parent(k) == SubSeq(k, 1, Len(k) - 1)

\* k lies at or below b
IsUnder(k, b) == Len(b) <= Len(k) /\ SubSeq(k, 1, Len(b)) = b

\* os.Stat: "dir", "file", "notexist" (ENOENT) or "notdir" (ENOTDIR: a file on the way)
Stat(F, path) ==
    LET k == Key(path) IN
    IF k \in DOMAIN F THEN F[k].kind
    ELSE IF \E n \in 1..(Len(k) - 1) : SubSeq(k, 1, n) \in DOMAIN F /\ F[SubSeq(k, 1, n)].kind = "file"
         THEN "notdir"
         ELSE "notexist"

\* ------------------------------------------------------------------------
\* service/path_utils.go
\* ------------------------------------------------------------------------
\* strings.TrimRight(s, "/")
RECURSIVE TrimRightSep(_)
TrimRightSep(s) ==
    IF s # <<>> /\ s[Len(s)] = "/" THEN TrimRightSep(SubSeq(s, 1, Len(s) - 1)) ELSE s

\* the prefix as both functions clean it: "", "." and "/" mean no restriction
CleanedPathPrefix(pathPrefixEnv) ==
    LET c == Clean(pathPrefixEnv) IN
    IF c = <<".">> \/ c = <<"/">> THEN <<>> ELSE c

\* the text of the errors ResolveAndValidatePath returns, by the line that returns them
ResolveErrText(line, arg) ==
    CASE line = 44 -> <<"A","c","c","e","s","s"," ","t","o"," ","t","h","e"," ","r","e","q","u","e","s","t","e","d"," ","p","a","t","h"," ","i","s"," ","f","o","r","b","i","d","d","e","n"," ","(","p","a","t","h"," ","t","r","a","v","e","r","s","a","l"," ","a","t","t","e","m","p","t","?",")">>
      [] line = 47 -> <<"A","c","c","e","s","s"," ","t","o"," ","t","h","e"," ","r","e","q","u","e","s","t","e","d"," ","p","a","t","h"," ","i","s"," ","f","o","r","b","i","d","d","e","n"," ","(","p","a","t","h"," ","t","r","a","v","e","r","s","a","l"," ","a","t","t","e","m","p","t","?",")">>
      [] line = 63 -> <<"P","A","T","H","_","P","R","E","F","I","X"," ">> \o arg \o <<" ","n","o","t"," ","f","o","u","n","d">>
      [] line = 65 -> <<"E","r","r","o","r"," ","a","c","c","e","s","s","i","n","g"," ","P","A","T","H","_","P","R","E","F","I","X"," ">> \o arg \o <<":"," ","s","t","a","t"," ">> \o arg \o <<":"," ","n","o","t"," ","a"," ","d","i","r","e","c","t","o","r","y">>
      [] line = 68 -> <<"P","A","T","H","_","P","R","E","F","I","X"," ">> \o arg \o <<" ","i","s"," ","n","o","t"," ","a"," ","d","i","r","e","c","t","o","r","y">>
      [] line = 90 -> <<"E","r","r","o","r"," ","c","a","l","c","u","l","a","t","i","n","g"," ","r","e","l","a","t","i","v","e"," ","p","a","t","h",":"," ","R","e","l",":"," ","c","a","n","'","t"," ","m","a","k","e"," ","r","e","l","a","t","i","v","e">>
      [] line = 93 -> <<"A","c","c","e","s","s"," ","t","o"," ","t","h","e"," ","r","e","q","u","e","s","t","e","d"," ","p","a","t","h"," ","i","s"," ","f","o","r","b","i","d","d","e","n"," ","(","r","e","s","o","l","v","e","d"," ","p","a","t","h"," ","o","u","t","s","i","d","e"," ","p","r","e","f","i","x",")">>
      [] line = 106 -> <<"E","r","r","o","r"," ","c","a","l","c","u","l","a","t","i","n","g"," ","r","e","l","a","t","i","v","e"," ","p","a","t","h"," ","f","r","o","m"," ","C","W","D",":"," ","R","e","l",":"," ","c","a","n","'","t"," ","m","a","k","e"," ","r","e","l","a","t","i","v","e">>
      [] line = 109 -> <<"A","c","c","e","s","s"," ","t","o"," ","t","h","e"," ","r","e","q","u","e","s","t","e","d"," ","p","a","t","h"," ","i","s"," ","f","o","r","b","i","d","d","e","n"," ","(","r","e","s","o","l","v","e","d"," ","p","a","t","h"," ","o","u","t","s","i","d","e"," ","C","W","D",")">>

ResolveFail(line, arg, statted) ==
    [ok |-> FALSE, targetDir |-> <<>>, displayPath |-> <<>>,
     line |-> line, err |-> ResolveErrText(line, arg), statted |-> statted]

\* the client's path taken as it is written
EffectiveQuerySubDir_Raw(rawQuerySubDir, cleanedPathPrefix) ==
    IF cleanedPathPrefix # <<>> /\ rawQuerySubDir = <<"/">> THEN <<>> ELSE rawQuerySubDir

\* lines 25-38 and, computed the same way, lines 114-125: the client's path made
\* relative to the prefix when it is absolute and begins with the prefix string
EffectiveQuerySubDir(rawQuerySubDir, cleanedPathPrefix) ==
    LET rel == Rel(cleanedPathPrefix, rawQuerySubDir) IN
    IF cleanedPathPrefix = <<>> THEN rawQuerySubDir
    ELSE IF rawQuerySubDir = <<"/">> THEN <<>>
    ELSE IF IsAbs(rawQuerySubDir) /\ HasPrefix(rawQuerySubDir, cleanedPathPrefix) /\ ~rel.err
    THEN rel.path
    ELSE rawQuerySubDir

\* lines 52-55
TargetFsPath(effectiveQuerySubDir) ==
    LET t == Clean(effectiveQuerySubDir) IN
    IF t = <<>> \/ t = <<".">> \/ t = <<"/">> THEN <<".">> ELSE t

\* lines 58, 70, 74-78
AbsTargetDir(cleanedPathPrefix, targetFsPath) ==
    Abs(Clean(Join(IF cleanedPathPrefix # <<>> THEN cleanedPathPrefix ELSE <<".">>, targetFsPath)))

\* the path shown as the client wrote it
NormalizeDisplayPath_Raw(tempDisplayPath) ==
    IF tempDisplayPath = <<>> THEN <<"/">> ELSE tempDisplayPath

\* lines 127-146: tempDisplayPath normalised for display
NormalizeDisplayPath(tempDisplayPath) ==
    LET cleanedDisplayPath == Clean(tempDisplayPath)
        displayPath ==
            IF tempDisplayPath = <<>> \/ tempDisplayPath = <<".">> THEN <<"/">>
            ELSE IF cleanedDisplayPath = <<".">> THEN <<"/">>
            ELSE IF ~HasPrefix(cleanedDisplayPath, <<"/">>) THEN <<"/">> \o cleanedDisplayPath
            ELSE cleanedDisplayPath
    IN  IF Len(displayPath) > 1 /\ HasSuffix(displayPath, <<"/">>)
        THEN TrimRightSep(displayPath) ELSE displayPath

\* displayPath of ResolveAndValidatePath (lines 113-146)
DisplayPath(rawQuerySubDir, cleanedPathPrefix) ==
    NormalizeDisplayPath(EffectiveQuerySubDir(rawQuerySubDir, cleanedPathPrefix))

CheckContained_Unchecked(rawQuerySubDir, cleanedPathPrefix, absTargetDir, relPath) ==
    [ok |-> TRUE, targetDir |-> absTargetDir, displayPath |-> <<"/">>,
     line |-> 148, err |-> <<>>, statted |-> cleanedPathPrefix # <<>>]

\* lines 83-111 and 148: absTargetDir against the prefix, or the working directory
\* when there is no prefix; relPath is filepath.Rel of the two
CheckContained(rawQuerySubDir, cleanedPathPrefix, absTargetDir, relPath) ==
    IF relPath.err
    THEN ResolveFail(IF cleanedPathPrefix # <<>> THEN 90 ELSE 106, <<>>, cleanedPathPrefix # <<>>)
    ELSE IF HasPrefix(relPath.path, DotDot) \/ relPath.path = DotDot
    THEN ResolveFail(IF cleanedPathPrefix # <<>> THEN 93 ELSE 109, <<>>, cleanedPathPrefix # <<>>)
    ELSE [ok |-> TRUE, targetDir |-> absTargetDir,
          displayPath |-> DisplayPath(rawQuerySubDir, cleanedPathPrefix),
          line |-> 148, err |-> <<>>, statted |-> cleanedPathPrefix # <<>>]

\* lines 73-148
ResolveTarget(rawQuerySubDir, cleanedPathPrefix, absTargetDir) ==
    CheckContained(rawQuerySubDir, cleanedPathPrefix, absTargetDir,
                   Rel(IF cleanedPathPrefix # <<>> THEN Abs(cleanedPathPrefix) ELSE Abs(Cwd),
                       absTargetDir))

\* lines 40-71: the preliminary traversal check, then os.Stat of the prefix
ResolveWithPrefix(rawQuerySubDir, cleanedPathPrefix, st) ==
    IF cleanedPathPrefix # <<>> /\ HasPrefix(Clean(rawQuerySubDir), DotDot)
    THEN ResolveFail(44, <<>>, FALSE)
    ELSE IF cleanedPathPrefix # <<>> /\ IsAbs(rawQuerySubDir)
            /\ ~HasPrefix(rawQuerySubDir, cleanedPathPrefix) /\ rawQuerySubDir # <<"/">>
    THEN ResolveFail(47, <<>>, FALSE)
    ELSE IF cleanedPathPrefix # <<>> /\ st = "notexist"
    THEN ResolveFail(63, cleanedPathPrefix, TRUE)
    ELSE IF cleanedPathPrefix # <<>> /\ st = "notdir"
    THEN ResolveFail(65, cleanedPathPrefix, TRUE)
    ELSE IF cleanedPathPrefix # <<>> /\ st # "dir"
    THEN ResolveFail(68, cleanedPathPrefix, TRUE)
    ELSE ResolveTarget(rawQuerySubDir, cleanedPathPrefix,
                       AbsTargetDir(cleanedPathPrefix,
                                    TargetFsPath(EffectiveQuerySubDir(rawQuerySubDir, cleanedPathPrefix))))

\* ResolveAndValidatePath on the filesystem F: [ok, targetDir, displayPath, line, err,
\* statted], statted telling whether os.Stat was called before it returned
ResolveAndValidatePath(rawQuerySubDir, pathPrefixEnv, F) ==
    ResolveWithPrefix(rawQuerySubDir, CleanedPathPrefix(pathPrefixEnv),
                      Stat(F, CleanedPathPrefix(pathPrefixEnv)))


\* ------------------------------------------------------------------------
\* os: the effect of the calls on the filesystem F, on keys (path elements)
\* ------------------------------------------------------------------------
DirNode == [kind |-> "dir", data |-> "none"]

\* the size of a file, a signed 64-bit integer, is written in base 1024: the sequence of
\* its digits, the most significant first, <<>> for 0; the sizes of the contents uploads write
ContentSize(d) == CASE d = "empty" -> <<>> [] d = "old" -> <<3>> [] d = "new" -> <<5>>

FileNode(d) == [kind |-> "file", data |-> d, size |-> ContentSize(d)]

\* a regular file of the given size
SizedFile(size) == [kind |-> "file", data |-> "old", size |-> size]

\* a symbolic link to the absolute path target
LinkNode(target) == [kind |-> "link", data |-> "none", target |-> target, size |-> <<Len(target)>>]

\* F without the keys in D
Without(F, D) == [k \in (DOMAIN F) \ D |-> F[k]]

\* F with the nodes of G added or replaced
Overlay(F, G) == [k \in (DOMAIN F) \cup (DOMAIN G) |-> IF k \in DOMAIN G THEN G[k] ELSE F[k]]

RemoveAll_Siblings(F, k) ==
    [F |-> Without(F, {x \in DOMAIN F : IsUnder(x, Parent(k)) /\ x # Parent(k) /\ x # <<>>}), err |-> (k = <<>>)]

\* os.RemoveAll: the node and everything below it; the root itself cannot be removed
RemoveAll(F, k) ==
    [F |-> Without(F, {x \in DOMAIN F : IsUnder(x, k) /\ x # <<>>}), err |-> (k = <<>>)]

\* the shortest prefix of k that is a regular file in F, or <<>> if none (the root is no file)
RECURSIVE FileOnWay(_, _, _)
FileOnWay(F, k, n) ==
    IF n > Len(k) THEN <<>>
    ELSE IF SubSeq(k, 1, n) \in DOMAIN F /\ F[SubSeq(k, 1, n)].kind = "file" THEN SubSeq(k, 1, n)
    ELSE FileOnWay(F, k, n + 1)

\* os.MkdirAll: nothing if k is a directory, ENOTDIR if k or an ancestor is a file,
\* else every missing directory down to k is created
MkdirAll(F, k) ==
    LET blk == FileOnWay(F, k, 1) IN
    IF blk # <<>> THEN [F |-> F, err |-> TRUE, at |-> blk]
    ELSE [F |-> Overlay(F, [x \in {SubSeq(k, 1, n) : n \in 0..Len(k)} \ DOMAIN F |-> DirNode]),
          err |-> FALSE, at |-> <<>>]

\* os.OpenFile(O_CREATE|O_RDWR|O_TRUNC): EISDIR on a directory, ENOTDIR/ENOENT when the
\* parent is no directory, else the file exists and is empty
OpenFile(F, k) ==
    IF k \in DOMAIN F /\ F[k].kind = "dir" THEN [F |-> F, err |-> TRUE]
    ELSE IF k = <<>> \/ Parent(k) \notin DOMAIN F \/ F[Parent(k)].kind # "dir" THEN [F |-> F, err |-> TRUE]
    ELSE [F |-> Overlay(F, [x \in {k} |-> FileNode("empty")]), err |-> FALSE]

\* the whole content written (io.Copy returned nil)
WriteAll(F, k, d) == Overlay(F, [x \in {k} |-> FileNode(d)])

Remove_Keep(F, k) == F

\* os.Remove of a file
Remove(F, k) == Without(F, {k})

\* the text of a *PathError
PathErrText(op, key, what) == op \o <<" ","/">> \o JoinSegs(key) \o <<":"," ">> \o what

ENOTDIR == <<"n","o","t"," ","a"," ","d","i","r","e","c","t","o","r","y">>

EISDIR == <<"i","s"," ","a"," ","d","i","r","e","c","t","o","r","y">>

\* ------------------------------------------------------------------------
\* payloads: the bytes a client uploads
\*   enc     "gzip" when the bytes are a gzip stream, else "raw"
\*   entries the tar headers a tar reader decodes from the (decompressed) bytes, each
\*           [name, typ, data]: typ "reg", "dir" or "other"; data "full", "zero" (Size 0)
\*           or "trunc" (the stream ends inside the content of the entry)
\*   tail    after the entries: "end" (clean end of archive), "bad" (a read or header error)
\* ------------------------------------------------------------------------
UnexpectedEOF == <<"u","n","e","x","p","e","c","t","e","d"," ","E","O","F">>

\* the error of gzip.NewReader on bytes that are no gzip stream
GzipHeaderErr(payload) ==
    IF payload.entries = <<>> /\ payload.tail = "end" THEN <<"E","O","F">> ELSE <<"g","z","i","p",":"," ","i","n","v","a","l","i","d"," ","h","e","a","d","e","r">>

\* what a tar.Reader decodes: gzip bytes read without decompression are no tar stream
TarView(payload, decompressed) ==
    IF payload.enc = "gzip" /\ ~decompressed
    THEN [entries |-> <<>>, tail |-> "bad"]
    ELSE [entries |-> payload.entries, tail |-> payload.tail]


\* ------------------------------------------------------------------------
\* service/file_service.go: UploadFile and extractTar
\* ------------------------------------------------------------------------
\* the text of the errors UploadFile and extractTar return, by the line that returns them;
\* a holds the interpolated strings in order (%w: the text of the wrapped error)
UploadErrText(line, a) ==
    CASE line = 129 -> <<"t","a","r","g","e","t"," ","d","i","r","e","c","t","o","r","y"," ","c","a","n","n","o","t"," ","b","e"," ","e","m","p","t","y">>
      [] line = 132 -> <<"t","a","r","g","e","t"," ","d","i","r","e","c","t","o","r","y"," ","c","a","n","n","o","t"," ","b","e"," ","c","u","r","r","e","n","t"," ","d","i","r","e","c","t","o","r","y"," ","s","h","o","r","t","h","a","n","d"," ","w","i","t","h","o","u","t"," ","a"," ","p","r","e","f","i","x">>
      [] line = 136 -> <<"t","a","r","g","e","t"," ","d","i","r","e","c","t","o","r","y"," ","c","a","n","n","o","t"," ","b","e"," ","a"," ","p","a","t","h"," ","t","r","a","v","e","r","s","a","l"," ","a","t","t","e","m","p","t",":"," ">> \o a[1]
      [] line = 151 -> <<"a","b","s","o","l","u","t","e"," ","t","a","r","g","e","t"," ","d","i","r","e","c","t","o","r","y"," ","'">> \o a[1] \o <<"'"," ","i","s"," ","o","u","t","s","i","d","e"," ","t","h","e"," ","s","c","o","p","e"," ","o","f"," ","p","a","t","h"," ","p","r","e","f","i","x"," ","'">> \o a[2] \o <<"'">>
      [] line = 175 -> <<"p","a","t","h"," ","p","r","e","f","i","x"," ","d","i","r","e","c","t","o","r","y"," ","'">> \o a[1] \o <<"'"," ","d","o","e","s"," ","n","o","t"," ","e","x","i","s","t">>
      [] line = 177 -> <<"f","a","i","l","e","d"," ","t","o"," ","s","t","a","t"," ","p","a","t","h"," ","p","r","e","f","i","x"," ","d","i","r","e","c","t","o","r","y"," ","'">> \o a[1] \o <<"'",":"," ">> \o a[2]
      [] line = 180 -> <<"p","a","t","h"," ","p","r","e","f","i","x"," ","'">> \o a[1] \o <<"'"," ","i","s"," ","n","o","t"," ","a"," ","d","i","r","e","c","t","o","r","y">>
      [] line = 197 -> <<"i","n","t","e","r","n","a","l"," ","e","r","r","o","r"," ","v","a","l","i","d","a","t","i","n","g"," ","p","a","t","h"," ","r","e","l","a","t","i","o","n","s","h","i","p",":"," ","R","e","l",":"," ","c","a","n","'","t"," ","m","a","k","e"," ","r","e","l","a","t","i","v","e">>
      [] line = 200 -> <<"t","a","r","g","e","t"," ","p","a","t","h"," ","'">> \o a[1] \o <<"'"," ","a","t","t","e","m","p","t","s"," ","t","o"," ","t","r","a","v","e","r","s","e"," ","o","u","t","s","i","d","e"," ","i","t","s"," ","a","l","l","o","w","e","d"," ","s","c","o","p","e">>
      [] line = 206 -> <<"f","a","i","l","e","d"," ","t","o"," ","r","e","m","o","v","e"," ","e","x","i","s","t","i","n","g"," ","d","i","r","e","c","t","o","r","y"," ","'">> \o a[1] \o <<"'"," ","f","o","r"," ","P","U","T",":"," ">> \o a[2]
      [] line = 211 -> <<"f","a","i","l","e","d"," ","t","o"," ","c","r","e","a","t","e"," ","t","a","r","g","e","t"," ","d","i","r","e","c","t","o","r","y"," ","'">> \o a[1] \o <<"'",":"," ">> \o a[2]
      [] line = 223 -> <<"f","a","i","l","e","d"," ","t","o"," ","c","r","e","a","t","e"," ","g","z","i","p"," ","r","e","a","d","e","r"," ","f","o","r"," ","a","r","c","h","i","v","e"," ","'">> \o a[1] \o <<"'",":"," ">> \o a[2]
      [] line = 242 -> <<"f","a","i","l","e","d"," ","t","o"," ","c","r","e","a","t","e"," ","g","z","i","p"," ","r","e","a","d","e","r"," ","f","o","r"," ","'">> \o a[1] \o <<"'",":"," ">> \o a[2]
      [] line = 256 -> <<"p","a","t","h"," ","t","r","a","v","e","r","s","a","l"," ","a","t","t","e","m","p","t"," ","f","o","r"," ","g","z","i","p","p","e","d"," ","f","i","l","e"," ","t","a","r","g","e","t"," ","'">> \o a[1] \o <<"'">>
      [] line = 259 -> <<"f","a","i","l","e","d"," ","t","o"," ","c","r","e","a","t","e"," ","p","a","r","e","n","t"," ","d","i","r","e","c","t","o","r","y"," ","f","o","r"," ","g","z","i","p","p","e","d"," ","f","i","l","e"," ","'">> \o a[1] \o <<"'",":"," ">> \o a[2]
      [] line = 264 -> <<"f","a","i","l","e","d"," ","t","o"," ","c","r","e","a","t","e"," ","f","i","l","e"," ","f","o","r"," ","g","z","i","p","p","e","d"," ","c","o","n","t","e","n","t"," ","'">> \o a[1] \o <<"'",":"," ">> \o a[2]
      [] line = 274 -> <<"f","a","i","l","e","d"," ","t","o"," ","c","o","p","y"," ","g","z","i","p","p","e","d"," ","f","i","l","e"," ","c","o","n","t","e","n","t"," ","t","o"," ","'">> \o a[1] \o <<"'",":"," ">> \o a[2]
      [] line = 280 -> <<"i","n","v","a","l","i","d"," ","c","h","a","r","a","c","t","e","r","s"," ","o","r"," ","t","r","a","v","e","r","s","a","l"," ","a","t","t","e","m","p","t"," ","i","n"," ","f","i","l","e","n","a","m","e"," ","'">> \o a[1] \o <<"'">>
      [] line = 285 -> <<"p","a","t","h"," ","t","r","a","v","e","r","s","a","l"," ","a","t","t","e","m","p","t"," ","f","o","r"," ","f","i","l","e"," ","t","a","r","g","e","t"," ","'">> \o a[1] \o <<"'">>
      [] line = 288 -> <<"f","a","i","l","e","d"," ","t","o"," ","c","r","e","a","t","e"," ","p","a","r","e","n","t"," ","d","i","r","e","c","t","o","r","y"," ","f","o","r"," ","f","i","l","e"," ","'">> \o a[1] \o <<"'",":"," ">> \o a[2]
      [] line = 293 -> <<"f","a","i","l","e","d"," ","t","o"," ","c","r","e","a","t","e"," ","f","i","l","e"," ","'">> \o a[1] \o <<"'",":"," ">> \o a[2]
      [] line = 320 -> <<"e","m","p","t","y"," ","o","r"," ","i","n","v","a","l","i","d"," ","t","a","r"," ","a","r","c","h","i","v","e"," ","'">> \o a[1] \o <<"'",":"," ","n","o"," ","h","e","a","d","e","r","s"," ","f","o","u","n","d">>
      [] line = 324 -> <<"f","a","i","l","e","d"," ","t","o"," ","r","e","a","d"," ","t","a","r"," ","h","e","a","d","e","r"," ","f","r","o","m"," ","a","r","c","h","i","v","e"," ","'">> \o a[1] \o <<"'",":"," ">> \o a[2]
      [] line = 330 -> <<"t","a","r"," ","a","r","c","h","i","v","e"," ","'">> \o a[1] \o <<"'"," ","c","o","n","t","a","i","n","s"," ","p","o","t","e","n","t","i","a","l","l","y"," ","u","n","s","a","f","e"," ","p","a","t","h"," ","e","n","t","r","y"," ","'">> \o a[2] \o <<"'">>
      [] line = 335 -> <<"p","a","t","h"," ","t","r","a","v","e","r","s","a","l"," ","a","t","t","e","m","p","t"," ","i","n"," ","a","r","c","h","i","v","e"," ","'">> \o a[1] \o <<"'",":"," ","e","n","t","r","y"," ","'">> \o a[2] \o <<"'"," ","r","e","s","o","l","v","e","s"," ","t","o"," ","'">> \o a[3] \o <<"'"," ","w","h","i","c","h"," ","i","s"," ","o","u","t","s","i","d","e"," ","e","x","t","r","a","c","t","i","o","n"," ","d","i","r","e","c","t","o","r","y"," ","'">> \o a[4] \o <<"'">>
      [] line = 341 -> <<"f","a","i","l","e","d"," ","t","o"," ","c","r","e","a","t","e"," ","d","i","r","e","c","t","o","r","y"," ","'">> \o a[1] \o <<"'"," ","f","r","o","m"," ","a","r","c","h","i","v","e"," ","'">> \o a[2] \o <<"'",":"," ">> \o a[3]
      [] line = 345 -> <<"f","a","i","l","e","d"," ","t","o"," ","c","r","e","a","t","e"," ","p","a","r","e","n","t"," ","d","i","r","e","c","t","o","r","y"," ","f","o","r"," ","f","i","l","e"," ","'">> \o a[1] \o <<"'"," ","f","r","o","m"," ","a","r","c","h","i","v","e"," ","'">> \o a[2] \o <<"'",":"," ">> \o a[3]
      [] line = 349 -> <<"f","a","i","l","e","d"," ","t","o"," ","c","r","e","a","t","e"," ","f","i","l","e"," ","'">> \o a[1] \o <<"'"," ","f","r","o","m"," ","a","r","c","h","i","v","e"," ","'">> \o a[2] \o <<"'",":"," ">> \o a[3]
      [] line = 361 -> <<"f","a","i","l","e","d"," ","t","o"," ","c","o","p","y"," ","c","o","n","t","e","n","t"," ","t","o"," ","'">> \o a[1] \o <<"'"," ","f","r","o","m"," ","a","r","c","h","i","v","e"," ","'">> \o a[2] \o <<"'",":"," ">> \o a[3]

\* a step of UploadFile that returned an error
Fail(F, line, a) == [F |-> F, ok |-> FALSE, line |-> line, err |-> UploadErrText(line, a), path |-> <<>>]

\* a step that went through and hands on no path
Pass_EmptyPath(F, line, path) == [F |-> F, ok |-> TRUE, line |-> line, err |-> <<>>, path |-> <<>>]

\* a step of UploadFile that went through; path is the path it goes on with or returns
Pass(F, line, path) == [F |-> F, ok |-> TRUE, line |-> line, err |-> <<>>, path |-> path]

\* UploadFile lines 195-201: the destination against effectiveBaseDir; relPath is
\* filepath.Rel of the two
CheckScope_Unchecked(F, targetDirUserPath, absValidatedTargetDir, relPath) ==
    Pass(F, 201, absValidatedTargetDir)

CheckScope(F, targetDirUserPath, absValidatedTargetDir, relPath) ==
    IF relPath.err THEN Fail(F, 197, <<>>)
    ELSE IF HasPrefix(relPath.path, DotDot) \/ relPath.path = DotDot
    THEN Fail(F, 200, <<targetDirUserPath>>)
    ELSE Pass(F, 201, absValidatedTargetDir)

\* UploadFile lines 117-201: the validation of the destination; path is absValidatedTargetDir
ValidateTarget(targetDirUserPath, pathPrefixEnv, F) ==
    LET cleanedTargetUserPath == Clean(targetDirUserPath)
        cleanedPathPrefix == IF pathPrefixEnv # <<>> THEN CleanedPathPrefix(pathPrefixEnv) ELSE <<>>
        absCleanedPathPrefix == Abs(cleanedPathPrefix)
        absCleanedTargetUserPath == Abs(cleanedTargetUserPath)
        absValidatedTargetDir ==
            Clean(IF cleanedPathPrefix # <<>>
                  THEN IF IsAbs(cleanedTargetUserPath) THEN absCleanedTargetUserPath
                       ELSE IF cleanedTargetUserPath = <<>> \/ cleanedTargetUserPath = <<".">>
                            THEN absCleanedPathPrefix
                            ELSE Join(absCleanedPathPrefix, cleanedTargetUserPath)
                  ELSE Abs(cleanedTargetUserPath))
        st == Stat(F, cleanedPathPrefix)
        effectiveBaseDir ==
            IF cleanedPathPrefix # <<>> THEN Abs(cleanedPathPrefix)
            ELSE IF IsAbs(targetDirUserPath) THEN absValidatedTargetDir ELSE Cwd
    IN  IF cleanedTargetUserPath = <<>> /\ cleanedPathPrefix = <<>> THEN Fail(F, 129, <<>>)
        ELSE IF cleanedTargetUserPath = <<".">> /\ cleanedPathPrefix = <<>> THEN Fail(F, 132, <<>>)
        ELSE IF HasPrefix(cleanedTargetUserPath, <<"/", ".", ".">>)
                \/ HasPrefix(cleanedTargetUserPath, <<".", ".", "/">>)
                \/ cleanedTargetUserPath = DotDot
        THEN Fail(F, 136, <<targetDirUserPath>>)
        ELSE IF cleanedPathPrefix # <<>> /\ IsAbs(cleanedTargetUserPath)
                /\ ~HasPrefix(absCleanedTargetUserPath, absCleanedPathPrefix)
        THEN Fail(F, 151, <<targetDirUserPath, cleanedPathPrefix>>)
        ELSE IF cleanedPathPrefix # <<>> /\ st = "notexist" THEN Fail(F, 175, <<cleanedPathPrefix>>)
        ELSE IF cleanedPathPrefix # <<>> /\ st = "notdir"
        THEN Fail(F, 177, <<cleanedPathPrefix, PathErrText(<<"s","t","a","t">>, Key(cleanedPathPrefix), ENOTDIR)>>)
        ELSE IF cleanedPathPrefix # <<>> /\ st # "dir" THEN Fail(F, 180, <<cleanedPathPrefix>>)
        ELSE CheckScope(F, targetDirUserPath, absValidatedTargetDir,
                        Rel(effectiveBaseDir, absValidatedTargetDir))

PrepareRemove_Keep(F, absValidatedTargetDir) == Pass(F, 209, absValidatedTargetDir)

\* UploadFile lines 203-209: replace mode removes the target directory
PrepareRemove(F, absValidatedTargetDir) ==
    LET r == RemoveAll(F, Key(absValidatedTargetDir)) IN
    IF r.err THEN Fail(r.F, 206, <<absValidatedTargetDir, <<"u","n","l","i","n","k","a","t"," ","/",":"," ","d","e","v","i","c","e"," ","o","r"," ","r","e","s","o","u","r","c","e"," ","b","u","s","y">>>>)
    ELSE Pass(r.F, 209, absValidatedTargetDir)

\* UploadFile lines 210-212: the target directory is created
PrepareMkdir(F, absValidatedTargetDir) ==
    LET r == MkdirAll(F, Key(absValidatedTargetDir)) IN
    IF r.err THEN Fail(F, 211, <<absValidatedTargetDir, PathErrText(<<"m","k","d","i","r">>, r.at, ENOTDIR)>>)
    ELSE Pass(r.F, 212, absValidatedTargetDir)

\* UploadFile lines 214-218: the handler a file name is dispatched to
ToLower(s) ==
    [i \in 1..Len(s) |->
        CASE s[i] = "T" -> "t" [] s[i] = "A" -> "a" [] s[i] = "R" -> "r"
          [] s[i] = "G" -> "g" [] s[i] = "Z" -> "z" [] OTHER -> s[i]]

\* the suffix .gz looked at first
Classify_GzFirst(fileName) ==
    IF HasSuffix(ToLower(fileName), <<".","g","z">>) THEN "gz"
    ELSE IF HasSuffix(ToLower(fileName), <<".","t","g","z">>) THEN "targz"
    ELSE IF HasSuffix(ToLower(fileName), <<".","t","a","r">>) THEN "tar"
    ELSE "plain"

Classify(fileName) ==
    LET fileNameLower == ToLower(fileName)
        isTgz == HasSuffix(fileNameLower, <<".","t","g","z">>)
        isTarGz == HasSuffix(fileNameLower, <<".","t","a","r",".","g","z">>)
        isTar == HasSuffix(fileNameLower, <<".","t","a","r">>) /\ ~isTarGz
        isGz == HasSuffix(fileNameLower, <<".","g","z">>) /\ ~isTarGz /\ ~isTgz
    IN  IF isTgz \/ isTarGz THEN "targz"
        ELSE IF isTar THEN "tar"
        ELSE IF isGz THEN "gz"
        ELSE "plain"

\* the file of a single-file upload: the containment check, the parent directories, the file
\* opened and the content copied (lines 254-276 with errs 256..274, lines 282-305 with 285..303)
WriteSingle(F, absValidatedTargetDir, name, shown, copyFails, errs) ==
    LET absFinalFilePath == Join(absValidatedTargetDir, name)
        k == Key(absFinalFilePath)
        md == MkdirAll(F, Key(Dir(absFinalFilePath)))
        op == OpenFile(md.F, k)
    IN  IF ~HasPrefix(absFinalFilePath, absValidatedTargetDir \o <<"/">>)
           /\ absFinalFilePath # absValidatedTargetDir
        THEN Fail(F, errs[1], <<shown>>)
        ELSE IF md.err THEN Fail(F, errs[2], <<absFinalFilePath, PathErrText(<<"m","k","d","i","r">>, md.at, ENOTDIR)>>)
        ELSE IF op.err THEN Fail(md.F, errs[3], <<absFinalFilePath, PathErrText(<<"o","p","e","n">>, k, EISDIR)>>)
        ELSE IF copyFails THEN Fail(Remove(op.F, k), errs[4], <<absFinalFilePath, UnexpectedEOF>>)
        ELSE Pass(WriteAll(op.F, k, "new"), errs[5], absFinalFilePath)

\* UploadFile lines 239-276: a lone gzip payload
UploadGz(F, absValidatedTargetDir, fileName, payload) ==
    LET t == TrimSuffix(fileName, <<".","g","z">>)
        targetFileName == IF t = <<>> THEN <<"g","z","i","p","p","e","d","_","f","i","l","e">> ELSE t
    IN  IF payload.enc # "gzip" THEN Fail(F, 242, <<fileName, GzipHeaderErr(payload)>>)
        ELSE WriteSingle(F, absValidatedTargetDir, Clean(targetFileName), targetFileName,
                         payload.tail = "bad", <<256, 259, 264, 274, 276>>)

\* UploadFile lines 277-306: a plain file
UploadPlain(F, absValidatedTargetDir, fileName, payload) ==
    LET cleanedFileName == Clean(fileName) IN
    IF HasPrefix(cleanedFileName, <<"/">>) \/ HasPrefix(cleanedFileName, DotDot)
    THEN Fail(F, 280, <<fileName>>)
    ELSE WriteSingle(F, absValidatedTargetDir, cleanedFileName, fileName,
                     FALSE, <<285, 288, 293, 303, 305>>)

\* extractTar line 329: the cleaned name of an entry is absolute or begins with ".."
UnsafeEntryName_Never(cleanedHeaderName) == FALSE

UnsafeEntryName(cleanedHeaderName) ==
    \/ IsAbs(cleanedHeaderName)
    \/ HasPrefix(cleanedHeaderName, <<".", ".", "/">>)
    \/ cleanedHeaderName = DotDot

SkipEntry_Create(F, targetItemPath) ==
    Pass(WriteAll(F, Key(targetItemPath), "empty"), 367, targetItemPath)

\* extractTar lines 366-367: the default case of the switch on header.Typeflag is empty
SkipEntry(F, targetItemPath) == Pass(F, 367, targetItemPath)

\* extractTar lines 328-367: one decoded header
ExtractEntry(F, baseExtractDir, archiveName, header) ==
    LET cleanedHeaderName == Clean(header.name)
        targetItemPath == Join(baseExtractDir, cleanedHeaderName)
        k == Key(targetItemPath)
        mdDir == MkdirAll(F, k)
        mdPar == MkdirAll(F, Key(Dir(targetItemPath)))
        op == OpenFile(mdPar.F, k)
    IN  IF UnsafeEntryName(cleanedHeaderName)
        THEN Fail(F, 330, <<archiveName, header.name>>)
        ELSE IF ~HasPrefix(targetItemPath, baseExtractDir \o <<"/">>) /\ targetItemPath # baseExtractDir
        THEN Fail(F, 335, <<archiveName, header.name, targetItemPath, baseExtractDir>>)
        ELSE IF header.typ = "dir"
        THEN IF mdDir.err
             THEN Fail(F, 341, <<targetItemPath, archiveName, PathErrText(<<"m","k","d","i","r">>, mdDir.at, ENOTDIR)>>)
             ELSE Pass(mdDir.F, 342, targetItemPath)
        ELSE IF header.typ = "reg"
        THEN IF mdPar.err
             THEN Fail(F, 345, <<targetItemPath, archiveName, PathErrText(<<"m","k","d","i","r">>, mdPar.at, ENOTDIR)>>)
             ELSE IF op.err
             THEN Fail(mdPar.F, 349, <<targetItemPath, archiveName, PathErrText(<<"o","p","e","n">>, k, EISDIR)>>)
             ELSE IF header.data = "trunc"
             THEN Fail(Remove(op.F, k), 361, <<targetItemPath, archiveName, UnexpectedEOF>>)
             ELSE Pass(WriteAll(op.F, k, IF header.data = "zero" THEN "empty" ELSE "new"), 365, targetItemPath)
        ELSE SkipEntry(F, targetItemPath)

ExtractEnd_NoEmptyCheck(F, baseExtractDir, archiveName, tail, headerProcessedSuccessfullyAtLeastOnce) ==
    IF tail = "end" THEN Pass(F, 369, baseExtractDir)
    ELSE Fail(F, 324, <<archiveName, <<"a","r","c","h","i","v","e","/","t","a","r",":"," ","i","n","v","a","l","i","d"," ","t","a","r"," ","h","e","a","d","e","r">>>>)

\* extractTar lines 316-326: tr.Next() has no further header
ExtractEnd(F, baseExtractDir, archiveName, tail, headerProcessedSuccessfullyAtLeastOnce) ==
    IF tail = "end"
    THEN IF ~headerProcessedSuccessfullyAtLeastOnce /\ archiveName # <<>>
         THEN Fail(F, 320, <<archiveName>>)
         ELSE Pass(F, 369, baseExtractDir)
    ELSE Fail(F, 324, <<archiveName, <<"a","r","c","h","i","v","e","/","t","a","r",":"," ","i","n","v","a","l","i","d"," ","t","a","r"," ","h","e","a","d","e","r">>>>)


\* ------------------------------------------------------------------------
\* service/file_service.go: formatFileSizeService, getFileInfoService, ListDirectory
\* ------------------------------------------------------------------------
DigitChars == <<"0", "1", "2", "3", "4", "5", "6", "7", "8", "9">>

\* fmt "%d" of a natural number
RECURSIVE Dec(_)
Dec(n) == IF n < 10 THEN <<DigitChars[n + 1]>> ELSE Dec(n \div 10) \o <<DigitChars[(n % 10) + 1]>>

\* const unit = 1024: the base the sizes are written in
unit == 1024

\* size / unit
DivUnit(size) == SubSeq(size, 1, Len(size) - 1)

\* size >= unit
AtLeastUnit(size) == Len(size) >= 2

\* the digits of 10 * size
RECURSIVE TimesTen(_, _)
TimesTen(size, carry) ==
    IF size = <<>> THEN (IF carry = 0 THEN <<>> ELSE <<carry>>)
    ELSE LET v == size[Len(size)] * 10 + carry IN
         Append(TimesTen(DivUnit(size), v \div unit), v % unit)

\* the number a sequence of at most two digits stands for
SmallValue(ds) ==
    IF ds = <<>> THEN 0 ELSE IF Len(ds) = 1 THEN ds[1] ELSE ds[1] * unit + ds[2]

\* fmt "%.1f" of float64(size)/float64(div) for div = unit^(exp+1): the tenths of the
\* quotient rounded to the nearest, a tie to the even one (the float conversion is exact
\* below 2^53 and does not move a quotient that is no closer to a tie than 2^-53 of it)
OneDecimal(size, exp) ==
    LET m   == TimesTen(size, 0)
        q   == SmallValue(SubSeq(m, 1, Len(m) - (exp + 1)))
        rem == SubSeq(m, Len(m) - exp, Len(m))
        low == \E i \in 2..Len(rem) : rem[i] # 0
        up  == rem[1] > 512 \/ (rem[1] = 512 /\ (low \/ q % 2 = 1))
        t   == IF up THEN q + 1 ELSE q
    IN  Dec(t \div 10) \o <<".">> \o Dec(t % 10)

SizeExp_NoLoop(n, exp) == exp

\* the loop of lines 28-31: exp counts the divisions of n by unit while n >= unit
RECURSIVE SizeExp(_, _)
SizeExp(n, exp) == IF AtLeastUnit(n) THEN SizeExp(DivUnit(n), exp + 1) ELSE exp

UnitLetters == <<"K", "M", "G", "T", "P", "E">>

\* the run-time panic of an index out of range
IndexPanic == <<"p","a","n","i","c",":"," ","i","n","d","e","x"," ","o","u","t"," ","o","f"," ","r","a","n","g","e">>

formatFileSizeService(size) ==
    IF ~AtLeastUnit(size) THEN Dec(SmallValue(size)) \o <<" ","B">>
    ELSE LET exp == SizeExp(DivUnit(size), 0) IN
         IF exp + 1 > Len(UnitLetters) THEN IndexPanic
         ELSE OneDecimal(size, exp) \o <<" ", UnitLetters[exp + 1]>> \o <<"i","B">>

\* the names os.ReadDir finds in the directory k: its immediate children
ChildrenOf(F, k) == {x \in DOMAIN F : Len(x) = Len(k) + 1 /\ IsUnder(x, k)}

\* os.ReadDir: "ok", or ENOENT ("notexist") or ENOTDIR ("notdir")
ReadDir(F, path) ==
    IF Stat(F, path) = "dir" THEN "ok"
    ELSE IF Stat(F, path) = "notexist" THEN "notexist"
    ELSE "notdir"

getFileInfoService_Lstat(F, x) == [err |-> FALSE, info |-> F[x]]

\* getFileInfoService: the node of a child, for a symbolic link the node os.Stat finds at
\* its target, an error when there is none
getFileInfoService(F, x) ==
    IF F[x].kind = "link"
    THEN IF Stat(F, F[x].target) \in {"dir", "file"}
         THEN [err |-> FALSE, info |-> F[Key(F[x].target)]]
         ELSE [err |-> TRUE, info |-> F[x]]
    ELSE [err |-> FALSE, info |-> F[x]]

\* ListDirectory lines 60-66: the request path cleaned, "." made "/"
CleanedOriginalRequestPath(originalRequestPath) ==
    LET c == IF Clean(originalRequestPath) = <<".">> THEN <<"/">> ELSE Clean(originalRequestPath) IN
    IF Len(c) > 1 /\ HasSuffix(c, <<"/">>) THEN TrimSuffix(c, <<"/">>) ELSE c

\* ListDirectory lines 68-77
ParentLink(cleanedOriginalRequestPath) ==
    IF cleanedOriginalRequestPath # <<>> /\ cleanedOriginalRequestPath # <<"/">>
    THEN IF Dir(cleanedOriginalRequestPath) = <<".">> THEN <<"/">> ELSE Dir(cleanedOriginalRequestPath)
    ELSE <<>>

\* ListDirectory lines 85-112: the entry of the child x
DirectoryEntryService(F, x, info, cleanedOriginalRequestPath) ==
    LET name == x[Len(x)]
        currentLinkDir == IF cleanedOriginalRequestPath = <<"/">> THEN <<>> ELSE cleanedOriginalRequestPath
        joined == Join(currentLinkDir, name)
    IN  [Name |-> name,
         Type |-> IF info.kind = "dir" THEN "directory" ELSE "file",
         Size |-> IF info.kind = "dir" THEN <<>> ELSE formatFileSizeService(info.size),
         Link |-> IF ~HasPrefix(joined, <<"/">>) THEN <<"/">> \o joined ELSE joined]

NoListing == [err |-> "none", entries |-> {}, parentLink |-> <<>>]

\* ListDirectory: [err, entries, parentLink], the entries as a set (os.ReadDir returns
\* the children ordered by name, and no two have the same name)
ListDirectory(F, validatedAbsPath, originalRequestPath) ==
    IF ReadDir(F, validatedAbsPath) # "ok"
    THEN [err |-> ReadDir(F, validatedAbsPath), entries |-> {}, parentLink |-> <<>>]
    ELSE [err |-> "none",
          entries |-> {DirectoryEntryService(F, x, getFileInfoService(F, x).info,
                                             CleanedOriginalRequestPath(originalRequestPath)) :
                          x \in {y \in ChildrenOf(F, Key(validatedAbsPath)) : ~getFileInfoService(F, y).err}},
          parentLink |-> ParentLink(CleanedOriginalRequestPath(originalRequestPath))]

\* ------------------------------------------------------------------------
\* the transports: the status an error of the service is reported with
\* ------------------------------------------------------------------------
\* UploadHandler (HTTP): the status of a failed service.UploadFile
HttpUploadStatus(errMsg) ==
    IF Contains(errMsg, <<"f","o","r","b","i","d","d","e","n">>) \/ Contains(errMsg, <<"t","r","a","v","e","r","s","a","l">>)
       \/ Contains(errMsg, <<"o","u","t","s","i","d","e"," ","t","h","e"," ","s","c","o","p","e">>) \/ Contains(errMsg, <<"u","n","s","a","f","e"," ","p","a","t","h">>)
       \/ Contains(errMsg, <<"c","a","n","n","o","t"," ","b","e"," ","a"," ","p","a","t","h"," ","t","r","a","v","e","r","s","a","l"," ","a","t","t","e","m","p","t">>)
    THEN 403
    ELSE IF Contains(errMsg, <<"n","o","t"," ","f","o","u","n","d">>) \/ Contains(errMsg, <<"d","o","e","s"," ","n","o","t"," ","e","x","i","s","t">>)
    THEN 404
    ELSE IF Contains(errMsg, <<"a","r","c","h","i","v","e">>) \/ Contains(errMsg, <<"g","z","i","p","p","e","d"," ","c","o","n","t","e","n","t">>)
            \/ Contains(errMsg, <<"f","i","l","e"," ","c","o","n","t","e","n","t">>) \/ Contains(errMsg, <<"i","s"," ","n","o","t"," ","a"," ","d","i","r","e","c","t","o","r","y">>)
    THEN 400
    ELSE 500

\* GRPCListDirectoryServer.UploadFile: the code of a failed service.UploadFile
GrpcUploadCode(errMsg) ==
    IF Contains(errMsg, <<"f","o","r","b","i","d","d","e","n">>) \/ Contains(errMsg, <<"t","r","a","v","e","r","s","a","l">>)
       \/ Contains(errMsg, <<"o","u","t","s","i","d","e"," ","t","h","e"," ","s","c","o","p","e">>) \/ Contains(errMsg, <<"u","n","s","a","f","e"," ","p","a","t","h">>)
       \/ Contains(errMsg, <<"c","a","n","n","o","t"," ","b","e"," ","a"," ","p","a","t","h"," ","t","r","a","v","e","r","s","a","l"," ","a","t","t","e","m","p","t">>)
    THEN "PermissionDenied"
    ELSE IF Contains(errMsg, <<"n","o","t"," ","f","o","u","n","d">>) \/ Contains(errMsg, <<"d","o","e","s"," ","n","o","t"," ","e","x","i","s","t">>)
    THEN "NotFound"
    ELSE IF Contains(errMsg, <<"a","r","c","h","i","v","e">>) \/ Contains(errMsg, <<"g","z","i","p","p","e","d"," ","c","o","n","t","e","n","t">>)
            \/ Contains(errMsg, <<"f","i","l","e"," ","c","o","n","t","e","n","t">>) \/ Contains(errMsg, <<"F","a","i","l","e","d"," ","t","o"," ","c","r","e","a","t","e"," ","g","z","i","p"," ","r","e","a","d","e","r">>)
            \/ Contains(errMsg, <<"i","s"," ","n","o","t"," ","a"," ","d","i","r","e","c","t","o","r","y">>)
    THEN "InvalidArgument"
    ELSE "Internal"

\* ListDirectoryHandler (HTTP): the status of a failed service.ResolveAndValidatePath
HttpListStatus(errMsg) ==
    IF Contains(errMsg, <<"n","o","t"," ","f","o","u","n","d">>) THEN 404
    ELSE IF Contains(errMsg, <<"i","s"," ","n","o","t"," ","a"," ","d","i","r","e","c","t","o","r","y">>) THEN 400
    ELSE IF Contains(errMsg, <<"f","o","r","b","i","d","d","e","n">>) \/ Contains(errMsg, <<"t","r","a","v","e","r","s","a","l">>)
            \/ Contains(errMsg, <<"o","u","t","s","i","d","e"," ","i","t","s"," ","a","l","l","o","w","e","d"," ","s","c","o","p","e">>) \/ Contains(errMsg, <<"o","u","t","s","i","d","e"," ","C","W","D">>)
            \/ Contains(errMsg, <<"o","u","t","s","i","d","e"," ","p","r","e","f","i","x">>)
    THEN 403
    ELSE 500


\* ListDirectoryHandler lines 58-74: the status of a failed service.ListDirectory
HttpReadDirStatus(err) == IF err = "notexist" THEN 404 ELSE 500

\* ------------------------------------------------------------------------
\* the inputs the model draws
\* ------------------------------------------------------------------------
\* every client path string of at most MaxLen characters
Paths == UNION {[1..n -> PathChars] : n \in 0..MaxLen}

\* every destination path string of at most MaxTargetLen characters; the transports hand
\* UploadFile no empty destination (UploadHandler refuses it or makes it ".", the gRPC
\* UploadFile refuses it)
Targets == UNION {[1..n -> PathChars] : n \in 1..MaxTargetLen}

\* the values of PATH_PREFIX: unset, the trivial "/", a directory, the same with a
\* trailing separator
PrefixDir == <<"/","p">>

Prefixes == {<<>>, <<"/">>, PrefixDir, <<"/","p","/">>}

\* the tar headers archives are made of
Entry(name, typ, data) == [name |-> name, typ |-> typ, data |-> data]

Entries ==
    { Entry(<<"a">>, "reg", "full"),
      Entry(<<"a">>, "reg", "trunc"),
      Entry(<<"o">>, "reg", "zero"),
      Entry(<<"d","/","b">>, "reg", "full"),
      Entry(<<"d">>, "dir", "zero"),
      Entry(<<".",".","/","e">>, "reg", "full"),
      Entry(<<"/","e">>, "reg", "full"),
      Entry(<<"d","/",".",".","/",".",".","/","e">>, "dir", "zero"),
      Entry(<<"l">>, "other", "zero"),
      Entry(<<".">>, "reg", "full") }

\* the sequences of at most n headers; a header whose content is cut off is the last one
\* the reader decodes, and the stream then ends badly
EntrySeqs(n) ==
    {s \in UNION {[1..m -> Entries] : m \in 0..n} :
        \A i \in 1..Len(s) : s[i].data = "trunc" => i = Len(s)}

TailsOf(s) == IF s # <<>> /\ s[Len(s)].data = "trunc" THEN {"bad"} ELSE {"end", "bad"}

Payloads ==
    {p \in [enc : {"raw", "gzip"}, entries : EntrySeqs(MaxEntries), tail : {"end", "bad"}] :
        p.tail \in TailsOf(p.entries)}

\* the file names of uploads: the four kinds of the dispatcher, and names that leave the target
FileNames ==
    { <<"x",".","t","a","r">>, <<"x",".","t","a","r",".","g","z">>, <<"x",".","t","g","z">>, <<"x",".","g","z">>, <<"x">>, <<".",".","/","x">>, <<".",".","/","x",".","g","z">> }

\* the parts file names are made of: a stem, the suffixes the dispatcher looks for (one in
\* upper case), the parent directory and the separator
NameParts == { <<"x">>, <<".","t","a","r">>, <<".","g","z">>, <<".","t","g","z">>, <<".","G","Z">>, <<".",".","/">>, <<"/">> }

RECURSIVE Concat(_)
Concat(parts) == IF parts = <<>> THEN <<>> ELSE Head(parts) \o Concat(Tail(parts))

\* every file name of one to MaxParts parts (neither transport hands on an empty name)
PartNames == {Concat(ps) : ps \in UNION {[1..n -> NameParts] : n \in 1..MaxParts}}

\* the digits a signed 64-bit integer has in base 1024, and the greatest first digit of one
\* that has them all (2^63 - 1 is 7, 1023, 1023, 1023, 1023, 1023, 1023)
Int64Digits == 7

Int64TopDigit == 7

\* the digits the sizes of more than one digit are made of
SizeDigits == {0, 1, 7, 1023}

\* the sizes of files: every size below 1024 and, of the greater ones that a signed
\* 64-bit integer holds, those made of SizeDigits
Sizes ==
    {<<>>} \cup {<<n>> : n \in 1..(unit - 1)}
    \cup {s \in UNION {[1..n -> SizeDigits] : n \in 2..Int64Digits} :
             s[1] # 0 /\ (Len(s) = Int64Digits => s[1] <= Int64TopDigit)}

\* the greatest size
MaxInt64 == [i \in 1..Int64Digits |-> IF i = 1 THEN Int64TopDigit ELSE unit - 1]

\* the sizes of the file o in the listed directories
ListSizes == {<<>>, <<1, 0>>, MaxInt64}

\* the filesystem of the listings: below the working directory /w and below the prefix
\* /p, the directory p holds the file o, the directory d with the file g, the link l to
\* o, the link k to the directory pp and the link b to nothing; pp is an empty directory
ListTree(base, size) ==
    Overlay(Overlay([k \in {Key(base), Key(base \o <<"/","p">>), Key(base \o <<"/","p","/","d">>), Key(base \o <<"/","p","p">>)} |-> DirNode],
                    [k \in {Key(base \o <<"/","p","/","o">>)} |-> SizedFile(size)]),
            Overlay([k \in {Key(base \o <<"/","p","/","d","/","g">>)} |-> FileNode("old")],
                    (Key(base \o <<"/","p","/","l">>) :> LinkNode(base \o <<"/","p","/","o">>))
                    @@ (Key(base \o <<"/","p","/","k">>) :> LinkNode(base \o <<"/","p","p">>))
                    @@ (Key(base \o <<"/","p","/","b">>) :> LinkNode(base \o <<"/","p","/","n","o","n","e">>))))

ListFs(size) ==
    Overlay([k \in {Key(<<"/">>)} |-> DirNode], Overlay(ListTree(Cwd, size), ListTree(PrefixDir, size)))

\* the filesystem of a listing that shows one file of a given size
FormatFs(size) ==
    Overlay([k \in {Key(<<"/">>), Key(Cwd)} |-> DirNode], [k \in {Key(Cwd \o <<"/","o">>)} |-> SizedFile(size)])

\* ------------------------------------------------------------------------
\* the state
\* ------------------------------------------------------------------------
VARIABLES
    prefixEnv,  \* the value of PATH_PREFIX in the environment of the process
    fs,         \* the filesystem
    pre,        \* the filesystem when the call began
    pc,         \* where the call is: "idle", "remove", "mkdir", "dispatch", "extract", "done";
                \* after an upload, "listed" and "listedsub": the listings that followed it;
                \* in the gRPC handler "recv", "call" and, when it has returned, "gdone"
    call,       \* the arguments of the call, each set when the code first reads it
    up,         \* UploadFile's locals: absValidatedTargetDir, the headers not yet read, the
                \* tail of the stream, headerProcessedSuccessfullyAtLeastOnce
    res         \* what the call returned and the status the transports give it

vars == <<prefixEnv, fs, pre, pc, call, up, res>>

\* the filesystem before the call: /w is the working directory; /pp is a directory beside
\* the prefix whose name begins with the prefix string, holding the file o; the prefix /p
\* is a directory holding the directory p with the file o, or a regular file, or missing
InitialFs(prefixKind) ==
    LET beside == Overlay([k \in {Key(<<"/">>), Key(<<"/","w">>), Key(<<"/","p","p">>)} |-> DirNode],
                          [k \in {Key(<<"/","p","p","/","o">>)} |-> FileNode("old")])
        inside == Overlay([k \in {Key(<<"/","p">>), Key(<<"/","p","/","p">>)} |-> DirNode],
                          [k \in {Key(<<"/","p","/","p","/","o">>)} |-> FileNode("old")])
    IN  CASE prefixKind = "dir" -> Overlay(beside, inside)
          [] prefixKind = "file" -> Overlay(beside, [k \in {Key(<<"/","p">>)} |-> FileNode("old")])
          [] prefixKind = "missing" -> beside

NoPayload == [enc |-> "raw", entries |-> <<>>, tail |-> "end"]

NoCall == [op |-> "none", path |-> <<>>, isPut |-> FALSE, fileName |-> <<>>, payload |-> NoPayload]

NoUp == [dir |-> <<>>, rest |-> <<>>, tail |-> "end", seen |-> FALSE]

NoRes == [ok |-> FALSE, line |-> 0, err |-> <<>>, path |-> <<>>, display |-> <<>>,
          statted |-> FALSE, http |-> 0, grpc |-> "none", entries |-> {}, parentLink |-> <<>>]

Init ==
    /\ prefixEnv \in Prefixes
    /\ fs \in {InitialFs(k) : k \in {"dir", "file", "missing"}}
    /\ pre = fs
    /\ pc = "idle"
    /\ call = NoCall
    /\ up = NoUp
    /\ res = NoRes

\* ------------------------------------------------------------------------
\* the listing flow: ListDirectoryHandler resolves the client's path
\* ------------------------------------------------------------------------
\* the request's path is one of paths; when the path is resolved the status is that of the
\* listing that follows (http 0 here)
Resolve(paths) ==
    /\ pc = "idle"
    /\ \E raw \in paths : \E r \in {ResolveAndValidatePath(raw, prefixEnv, fs)} :
          /\ call' = [NoCall EXCEPT !.op = "resolve", !.path = raw]
          /\ res' = [ok |-> r.ok, line |-> r.line, err |-> r.err, path |-> r.targetDir,
                     display |-> r.displayPath, statted |-> r.statted,
                     http |-> IF r.ok THEN 0 ELSE HttpListStatus(r.err), grpc |-> "none",
                     entries |-> {}, parentLink |-> <<>>]
    /\ pc' = "done"
    /\ UNCHANGED <<prefixEnv, fs, pre, up>>

\* ListDirectoryHandler on the request path raw: the path is resolved and, when it is,
\* the directory is listed with the same path
ListingRecord(r, l) ==
    [ok |-> r.ok /\ l.err = "none", line |-> r.line, err |-> r.err, path |-> r.targetDir,
     display |-> r.displayPath, statted |-> r.statted,
     http |-> IF ~r.ok THEN HttpListStatus(r.err)
              ELSE IF l.err # "none" THEN HttpReadDirStatus(l.err) ELSE 200,
     grpc |-> "none", entries |-> l.entries, parentLink |-> l.parentLink]

\* the handler answers with the listing of the filesystem as it is
Listed(raw) ==
    \E r \in {ResolveAndValidatePath(raw, prefixEnv, fs)} :
    \E l \in {IF r.ok THEN ListDirectory(fs, r.targetDir, raw) ELSE NoListing} :
        res' = ListingRecord(r, l)

\* a listing request whose path is one of paths
List(paths) ==
    /\ pc = "idle"
    /\ \E raw \in paths :
          /\ call' = [NoCall EXCEPT !.op = "list", !.path = raw]
          /\ Listed(raw)
    /\ pc' = "done"
    /\ UNCHANGED <<prefixEnv, fs, pre, up>>

\* after a successful upload, a listing request with the path string of the upload
ListUploaded ==
    /\ pc = "done" /\ call.op = "upload" /\ res.ok
    /\ Listed(call.path)
    /\ pc' = "listed"
    /\ UNCHANGED <<prefixEnv, fs, pre, call, up>>

\* then a listing request for the directory d in it
ListUploadedSub ==
    /\ pc = "listed"
    /\ Listed(call.path \o <<"/","d">>)
    /\ pc' = "listedsub"
    /\ UNCHANGED <<prefixEnv, fs, pre, call, up>>

\* ------------------------------------------------------------------------
\* the upload flow: service.UploadFile, one action for each access to the filesystem,
\* and the status UploadHandler and the gRPC UploadFile report when it returns
\* ------------------------------------------------------------------------
\* what the transports report when UploadFile returned r
Returned(r) ==
    [ok |-> r.ok, line |-> r.line, err |-> r.err, path |-> r.path,
     display |-> <<>>, statted |-> FALSE,
     http |-> IF r.ok THEN 200 ELSE HttpUploadStatus(r.err),
     grpc |-> IF r.ok THEN "OK" ELSE GrpcUploadCode(r.err),
     entries |-> {}, parentLink |-> <<>>]

\* UploadFile returns r
Return(r) ==
    /\ fs' = r.F
    /\ pc' = "done"
    /\ res' = Returned(r)

\* lines 117-201: the destination is validated
UploadValidate(targets) ==
    /\ pc = "idle"
    /\ \E target \in targets : \E r \in {ValidateTarget(target, prefixEnv, fs)} :
          /\ call' = [NoCall EXCEPT !.op = "upload", !.path = target]
          /\ IF r.ok
             THEN /\ pc' = "remove"
                  /\ up' = [up EXCEPT !.dir = r.path]
                  /\ UNCHANGED <<fs, res>>
             ELSE /\ Return(r)
                  /\ UNCHANGED up
    /\ UNCHANGED <<prefixEnv, pre>>

\* lines 203-209: in replace mode (PUT, and every gRPC upload) the target is removed
UploadRemove ==
    /\ pc = "remove"
    /\ \E isPut \in BOOLEAN : \E r \in {PrepareRemove(fs, up.dir)} :
          /\ call' = [call EXCEPT !.isPut = isPut]
          /\ IF isPut
             THEN IF r.ok
                  THEN fs' = r.F /\ pc' = "mkdir" /\ UNCHANGED res
                  ELSE Return(r)
             ELSE pc' = "mkdir" /\ UNCHANGED <<fs, res>>
    /\ UNCHANGED <<prefixEnv, pre, up>>

\* lines 210-212: the target directory is created
UploadMkdir ==
    /\ pc = "mkdir"
    /\ \E r \in {PrepareMkdir(fs, up.dir)} :
          IF r.ok
          THEN fs' = r.F /\ pc' = "dispatch" /\ UNCHANGED res
          ELSE Return(r)
    /\ UNCHANGED <<prefixEnv, pre, call, up>>

\* lines 214-306: the payload is dispatched by the file name; the archives go on to
\* extractTar, the single files are written here
\* the request's file name and payload are one of uploads
UploadDispatch(uploads) ==
    /\ pc = "dispatch"
    /\ \E u \in uploads : \E kind \in {Classify(u.fileName)} :
          /\ call' = [call EXCEPT !.fileName = u.fileName, !.payload = u.payload]
          /\ IF kind = "targz" /\ u.payload.enc # "gzip"
             THEN Return(Fail(fs, 223, <<u.fileName, GzipHeaderErr(u.payload)>>)) /\ UNCHANGED up
             ELSE IF kind \in {"targz", "tar"}
             THEN /\ pc' = "extract"
                  /\ up' = [up EXCEPT !.rest = TarView(u.payload, kind = "targz").entries,
                                      !.tail = TarView(u.payload, kind = "targz").tail]
                  /\ UNCHANGED <<fs, res>>
             ELSE IF kind = "gz"
             THEN Return(UploadGz(fs, up.dir, u.fileName, u.payload)) /\ UNCHANGED up
             ELSE Return(UploadPlain(fs, up.dir, u.fileName, u.payload)) /\ UNCHANGED up
    /\ UNCHANGED <<prefixEnv, pre>>

\* extractTar lines 316-367: tr.Next() decodes a header and the entry is extracted
ExtractHeader ==
    /\ pc = "extract"
    /\ up.rest # <<>>
    /\ \E r \in {ExtractEntry(fs, up.dir, call.fileName, Head(up.rest))} :
          IF r.ok
          THEN /\ fs' = r.F
               /\ up' = [up EXCEPT !.rest = Tail(up.rest), !.seen = TRUE]
               /\ UNCHANGED <<pc, res>>
          ELSE /\ Return(r)
               /\ up' = [up EXCEPT !.seen = TRUE]
    /\ UNCHANGED <<prefixEnv, pre, call>>

\* extractTar lines 316-326 and 369: tr.Next() reports the end of the stream or an error
ExtractStop ==
    /\ pc = "extract"
    /\ up.rest = <<>>
    /\ \E r \in {ExtractEnd(fs, up.dir, call.fileName, up.tail, up.seen)} : Return(r)
    /\ UNCHANGED <<prefixEnv, pre, call, up>>

\* ------------------------------------------------------------------------
\* the specifications
\* ------------------------------------------------------------------------
\* one call of ResolveAndValidatePath, on every client path
NextResolve == Resolve(Paths)

SpecResolve == Init /\ [][NextResolve]_vars

\* the uploads whose destination is drawn from every client path: a tar archive that is
\* empty, holds the file a, holds an entry that leaves the target, or is gzip bytes; a lone
\* gzip file with and without a gzip header; a plain file; a plain file that leaves the target
Upload(fileName, enc, entries) ==
    [fileName |-> fileName, payload |-> [enc |-> enc, entries |-> entries, tail |-> "end"]]

\* every file name with every payload
Uploads == [fileName : FileNames, payload : Payloads]

FewUploads ==
    { Upload(<<"x",".","t","a","r">>, "raw", <<>>),
      Upload(<<"x",".","t","a","r">>, "raw", <<Entry(<<"a">>, "reg", "full")>>),
      Upload(<<"x",".","t","a","r">>, "raw", <<Entry(<<".",".","/","e">>, "reg", "full")>>),
      Upload(<<"x",".","t","a","r">>, "gzip", <<Entry(<<"a">>, "reg", "full")>>),
      Upload(<<"x",".","g","z">>, "gzip", <<>>),
      Upload(<<"x",".","g","z">>, "raw", <<>>),
      Upload(<<"x">>, "raw", <<>>),
      Upload(<<".",".","/","x">>, "raw", <<>>) }

\* one call of UploadFile, on every destination path
Next ==
    \/ UploadValidate(Targets)
    \/ UploadRemove
    \/ UploadMkdir
    \/ UploadDispatch(FewUploads)
    \/ ExtractHeader
    \/ ExtractStop

Spec == Init /\ [][Next]_vars

\* the destinations of the uploads that draw every archive: the directory /p/p, which
\* holds the file o, /p/pp, which does not exist, and /p/pp/p, whose parent does not exist
ExtractTargets == { <<"p">>, <<"p","p">>, <<"p","p","/","p">> }

\* one call of UploadFile under the prefix /p, on every archive
InitExtract ==
    /\ Init
    /\ prefixEnv = PrefixDir
    /\ fs = InitialFs("dir")

NextExtract ==
    \/ UploadValidate(ExtractTargets)
    \/ UploadRemove
    \/ UploadMkdir
    \/ UploadDispatch(Uploads)
    \/ ExtractHeader
    \/ ExtractStop

SpecExtract == InitExtract /\ [][NextExtract]_vars

\* the uploads that draw every file name: a tar stream with the file a and an empty
\* stream, each as it is and gzipped
DispatchPayloads ==
    [enc : {"raw", "gzip"}, entries : {<<>>, <<Entry(<<"a">>, "reg", "full")>>}, tail : {"end"}]

DispatchUploads == [fileName : PartNames, payload : DispatchPayloads]

\* their destinations: /p/p, which exists, and /p/pp, which does not
DispatchTargets == { <<"p">>, <<"p","p">> }

\* one call of UploadFile under the prefix /p, on every file name
NextDispatch ==
    \/ UploadValidate(DispatchTargets)
    \/ UploadRemove
    \/ UploadMkdir
    \/ UploadDispatch(DispatchUploads)
    \/ ExtractHeader
    \/ ExtractStop

SpecDispatch == InitExtract /\ [][NextDispatch]_vars

\* one listing request, on every client path, in the filesystem of the listings
InitOn(prefixes, filesystems) ==
    /\ prefixEnv \in prefixes
    /\ fs \in filesystems
    /\ pre = fs
    /\ pc = "idle"
    /\ call = NoCall
    /\ up = NoUp
    /\ res = NoRes

InitList == InitOn(Prefixes, {ListFs(size) : size \in ListSizes})

NextList == List(Paths)

SpecList == InitList /\ [][NextList]_vars

\* one listing request for the working directory, which holds a file of any of the sizes
InitFormat == InitOn({<<>>}, {FormatFs(size) : size \in Sizes})

NextFormat == List({<<>>})

SpecFormat == InitFormat /\ [][NextFormat]_vars

\* the archive of the round trip: the files a and d/b
RoundTripUpload ==
    Upload(<<"x",".","t","a","r">>, "raw", <<Entry(<<"a">>, "reg", "full"), Entry(<<"d","/","b">>, "reg", "full")>>)

\* an upload of that archive on every destination path, then the listing of the
\* destination and of the directory d in it
NextRoundTrip ==
    \/ UploadValidate(Targets)
    \/ UploadRemove
    \/ UploadMkdir
    \/ UploadDispatch({RoundTripUpload})
    \/ ExtractHeader
    \/ ExtractStop
    \/ ListUploaded
    \/ ListUploadedSub

SpecRoundTrip == Init /\ [][NextRoundTrip]_vars

\* ------------------------------------------------------------------------
\* the gRPC upload: GRPCListDirectoryServer.UploadFile receives the client's stream
\* into a temporary file and then calls service.UploadFile in replace mode
\* ------------------------------------------------------------------------
\* the file os.CreateTemp("", "grpc-upload-*.tmp") makes in the temporary directory
TempDir == <<"/","t","m","p">>

TempFile == <<"/","t","m","p","/","g">>

\* the FileInfo messages of the clients: with and without a file name and a path
GrpcFileNames == { <<>>, <<"x",".","t","a","r">>, <<"x">> }

GrpcPaths == { <<>>, <<"p">>, <<"p","p">> }

FileInfoMsgs == [kind : {"info"}, filename : GrpcFileNames, path : GrpcPaths]

\* a message that carries chunk data and no FileInfo
ChunkMsg == [kind |-> "chunk", filename |-> <<>>, path |-> <<>>]

\* what stream.Recv returns: a message, io.EOF, or another error
EofEvent == [kind |-> "eof", filename |-> <<>>, path |-> <<>>]

ErrEvent == [kind |-> "err", filename |-> <<>>, path |-> <<>>]

RecvEvents == FileInfoMsgs \cup {ChunkMsg, EofEvent, ErrEvent}

\* the filesystem of the gRPC uploads: the temporary directory exists, or it does not
\* and os.CreateTemp fails
GrpcFs(prefixKind, withTemp) ==
    IF withTemp THEN Overlay(InitialFs(prefixKind), [k \in {Key(TempDir)} |-> DirNode])
    ELSE InitialFs(prefixKind)

\* the call of the handler: the fields of the FileInfo; what the first message was, the
\* number of messages received, whether a later one carried a FileInfo, and whether
\* service.UploadFile has been called
GrpcCall(info) ==
    [op |-> "grpc", path |-> info.path, isPut |-> TRUE, fileName |-> info.filename,
     payload |-> NoPayload, first |-> info.kind, msgs |-> 1, later |-> FALSE, invoked |-> FALSE]

\* the handler returns status.Error(code, text) itself; the deferred os.Remove has run
\* when the temporary file had been created
GrpcReject(code, text, F) ==
    /\ pc' = "gdone"
    /\ fs' = F
    /\ res' = [NoRes EXCEPT !.grpc = code, !.err = text]

CheckFirstMessage_AnyPath(m) ==
    IF m.kind = "eof" THEN [code |-> "InvalidArgument", text |-> <<"N","o"," ","F","i","l","e","I","n","f","o"," ","r","e","c","e","i","v","e","d">>]
    ELSE IF m.kind = "err" THEN [code |-> "Internal", text |-> <<"F","a","i","l","e","d"," ","t","o"," ","r","e","c","e","i","v","e"," ","i","n","i","t","i","a","l"," ","r","e","q","u","e","s","t">>]
    ELSE IF m.kind # "info"
    THEN [code |-> "InvalidArgument", text |-> <<"M","i","s","s","i","n","g"," ","F","i","l","e","I","n","f","o"," ","i","n"," ","t","h","e"," ","f","i","r","s","t"," ","m","e","s","s","a","g","e">>]
    ELSE IF m.filename = <<>>
    THEN [code |-> "InvalidArgument", text |-> <<"F","i","l","e","n","a","m","e"," ","i","s"," ","r","e","q","u","i","r","e","d"," ","i","n"," ","F","i","l","e","I","n","f","o">>]
    ELSE [code |-> "OK", text |-> <<>>]

\* lines 21-39: the first message must be a FileInfo with a file name and a path
CheckFirstMessage(m) ==
    IF m.kind = "eof" THEN [code |-> "InvalidArgument", text |-> <<"N","o"," ","F","i","l","e","I","n","f","o"," ","r","e","c","e","i","v","e","d">>]
    ELSE IF m.kind = "err" THEN [code |-> "Internal", text |-> <<"F","a","i","l","e","d"," ","t","o"," ","r","e","c","e","i","v","e"," ","i","n","i","t","i","a","l"," ","r","e","q","u","e","s","t">>]
    ELSE IF m.kind # "info"
    THEN [code |-> "InvalidArgument", text |-> <<"M","i","s","s","i","n","g"," ","F","i","l","e","I","n","f","o"," ","i","n"," ","t","h","e"," ","f","i","r","s","t"," ","m","e","s","s","a","g","e">>]
    ELSE IF m.filename = <<>>
    THEN [code |-> "InvalidArgument", text |-> <<"F","i","l","e","n","a","m","e"," ","i","s"," ","r","e","q","u","i","r","e","d"," ","i","n"," ","F","i","l","e","I","n","f","o">>]
    ELSE IF m.path = <<>>
    THEN [code |-> "InvalidArgument", text |-> <<"T","a","r","g","e","t"," ","p","a","t","h"," ","i","s"," ","r","e","q","u","i","r","e","d"," ","i","n"," ","F","i","l","e","I","n","f","o">>]
    ELSE [code |-> "OK", text |-> <<>>]

\* lines 21-50: the first message, and the temporary file
GrpcFirst ==
    /\ pc = "idle"
    /\ \E m \in RecvEvents : \E c \in {CheckFirstMessage(m)} :
          /\ call' = GrpcCall(m)
          /\ IF c.code # "OK" THEN GrpcReject(c.code, c.text, fs)
             ELSE IF OpenFile(fs, Key(TempFile)).err
             THEN GrpcReject("Internal", <<"F","a","i","l","e","d"," ","t","o"," ","c","r","e","a","t","e"," ","t","e","m","p","o","r","a","r","y"," ","f","i","l","e">>, fs)
             ELSE /\ fs' = OpenFile(fs, Key(TempFile)).F
                  /\ pc' = "recv"
                  /\ UNCHANGED res
    /\ UNCHANGED <<prefixEnv, pre, up>>

\* lines 65-96: the next message is received and its chunk written to the temporary
\* file (writeFails: tempFile.Write returns an error); at io.EOF the loop is left
GrpcRecv ==
    /\ pc = "recv"
    /\ \E m \in RecvEvents, writeFails \in BOOLEAN :
          /\ m.kind \in {"info", "chunk"} => call.msgs < MaxMsgs
          /\ writeFails => m.kind = "chunk"
          /\ call' = [call EXCEPT !.msgs = IF m.kind \in {"info", "chunk"} THEN @ + 1 ELSE @,
                                  !.later = (m.kind = "info")]
          /\ IF m.kind = "eof" THEN pc' = "call" /\ UNCHANGED <<fs, res>>
             ELSE IF m.kind = "err"
             THEN GrpcReject("Internal", <<"F","a","i","l","e","d"," ","t","o"," ","r","e","c","e","i","v","e"," ","f","i","l","e"," ","c","h","u","n","k">>, Remove(fs, Key(TempFile)))
             ELSE IF m.kind = "info"
             THEN GrpcReject("InvalidArgument", <<"R","e","c","e","i","v","e","d"," ","F","i","l","e","I","n","f","o"," ","m","e","s","s","a","g","e"," ","a","f","t","e","r"," ","t","h","e"," ","f","i","r","s","t"," ","o","n","e">>,
                             Remove(fs, Key(TempFile)))
             ELSE IF writeFails
             THEN GrpcReject("Internal", <<"F","a","i","l","e","d"," ","t","o"," ","w","r","i","t","e"," ","t","o"," ","t","e","m","p","o","r","a","r","y"," ","f","i","l","e">>, Remove(fs, Key(TempFile)))
             ELSE /\ fs' = WriteAll(fs, Key(TempFile), "new")
                  /\ UNCHANGED <<pc, res>>
    /\ UNCHANGED <<prefixEnv, pre, up>>

\* line 121 and UploadFile lines 117-201: the service is called and validates the
\* destination
GrpcService ==
    /\ pc = "call"
    /\ call' = [call EXCEPT !.invoked = TRUE]
    /\ \E r \in {ValidateTarget(call.path, prefixEnv, fs)} :
          IF r.ok
          THEN /\ pc' = "remove"
               /\ up' = [up EXCEPT !.dir = r.path]
               /\ UNCHANGED <<fs, res>>
          ELSE /\ Return(r)
               /\ UNCHANGED up
    /\ UNCHANGED <<prefixEnv, pre>>

\* UploadFile lines 203-209 with isPutRequest true: the target is removed
GrpcRemove ==
    /\ pc = "remove"
    /\ \E r \in {PrepareRemove(fs, up.dir)} :
          IF r.ok
          THEN fs' = r.F /\ pc' = "mkdir" /\ UNCHANGED res
          ELSE Return(r)
    /\ UNCHANGED <<prefixEnv, pre, call, up>>

\* the payloads the temporary file may hold, under the file name of the FileInfo
GrpcUploads == {u \in FewUploads : u.fileName = call.fileName}

\* lines 122-153 and 53-62: the service has returned, its error is given a code, and the
\* deferred os.Remove removes the temporary file
GrpcReturn ==
    /\ pc = "done"
    /\ call.op = "grpc"
    /\ fs' = Remove(fs, Key(TempFile))
    /\ pc' = "gdone"
    /\ UNCHANGED <<prefixEnv, pre, call, up, res>>

InitGrpc == InitOn(Prefixes, {GrpcFs(k, t) : k \in {"dir", "file", "missing"}, t \in BOOLEAN})

\* one gRPC upload, on every stream of at most MaxMsgs messages
NextGrpc ==
    \/ GrpcFirst
    \/ GrpcRecv
    \/ GrpcService
    \/ GrpcRemove
    \/ UploadMkdir
    \/ UploadDispatch(GrpcUploads)
    \/ ExtractHeader
    \/ ExtractStop
    \/ GrpcReturn

SpecGrpc == InitGrpc /\ [][NextGrpc]_vars

\* ------------------------------------------------------------------------
\* the two validations side by side: the same path string and prefix are given to
\* ResolveAndValidatePath, as a listing does, and to UploadFile's validation of the
\* destination (lines 117-201), as an upload does
\* ------------------------------------------------------------------------
BothValidate(paths) ==
    /\ pc = "idle"
    /\ \E raw \in paths :
       \E r \in {ResolveAndValidatePath(raw, prefixEnv, fs)} :
       \E u \in {ValidateTarget(raw, prefixEnv, fs)} :
          /\ call' = [NoCall EXCEPT !.op = "both", !.path = raw]
          /\ res' = [ok |-> r.ok, line |-> r.line, err |-> r.err, path |-> r.targetDir,
                     display |-> r.displayPath, statted |-> r.statted,
                     http |-> IF r.ok THEN 0 ELSE HttpListStatus(r.err),
                     grpc |-> IF u.ok THEN "none" ELSE GrpcUploadCode(u.err),
                     entries |-> {}, parentLink |-> <<>>,
                     upOk |-> u.ok, upLine |-> u.line, upPath |-> u.path]
    /\ pc' = "done"
    /\ UNCHANGED <<prefixEnv, fs, pre, up>>

NextBoth == BothValidate(Targets)

SpecBoth == Init /\ [][NextBoth]_vars

\* ------------------------------------------------------------------------
\* requests one after the other, while the prefix changes between them: every request
\* reads PATH_PREFIX and calls os.Stat on it anew (path_utils.go:60, file_service.go:172)
\* ------------------------------------------------------------------------
RequestFs_First(F0, F) == F0

\* the filesystem a request reads: the one of its own time, F, and not the one the
\* request before it began on, F0
RequestFs(F0, F) == F

\* what the check of the prefix came to in a call that returned r: the call returned
\* before the check ("unchecked"), the prefix was missing, was no directory, or passed
PrefixOutcome(op, r) ==
    IF op = "resolve"
    THEN IF r.line = 63 THEN "notfound"
         ELSE IF r.line = 68 THEN "notdir"
         ELSE IF ~r.ok /\ ~r.statted THEN "unchecked"
         ELSE "ok"
    ELSE IF r.line = 175 THEN "notfound"
         ELSE IF r.line \in {177, 180} THEN "notdir"
         ELSE IF r.line \in {129, 132, 136, 151} THEN "unchecked"
         ELSE "ok"

\* the outcome of the request that has just returned, "none" before the first
LastOutcome == IF pc = "done" THEN PrefixOutcome(call.op, res) ELSE "none"

\* the arguments of a request, with the outcome of the request before it
RequestCall(op, path) ==
    [op |-> op, path |-> path, isPut |-> FALSE, fileName |-> <<>>, payload |-> NoPayload,
     prev |-> LastOutcome]

\* a listing request resolves its path
ResolveRequest(paths) ==
    /\ pc \in {"idle", "done"}
    /\ \E raw \in paths : \E r \in {ResolveAndValidatePath(raw, prefixEnv, RequestFs(pre, fs))} :
          /\ call' = RequestCall("resolve", raw)
          /\ res' = [ok |-> r.ok, line |-> r.line, err |-> r.err, path |-> r.targetDir,
                     display |-> r.displayPath, statted |-> r.statted,
                     http |-> IF r.ok THEN 0 ELSE HttpListStatus(r.err), grpc |-> "none",
                     entries |-> {}, parentLink |-> <<>>]
    /\ pc' = "done"
    /\ pre' = fs
    /\ up' = NoUp
    /\ UNCHANGED <<prefixEnv, fs>>

\* an upload request validates its destination
UploadRequest(targets) ==
    /\ pc \in {"idle", "done"}
    /\ \E target \in targets : \E r \in {ValidateTarget(target, prefixEnv, RequestFs(pre, fs))} :
          /\ call' = RequestCall("upload", target)
          /\ IF r.ok
             THEN /\ pc' = "remove"
                  /\ up' = [NoUp EXCEPT !.dir = r.path]
                  /\ res' = NoRes
                  /\ UNCHANGED fs
             ELSE /\ Return([r EXCEPT !.F = fs])
                  /\ up' = NoUp
    /\ pre' = fs
    /\ UNCHANGED prefixEnv

\* between two requests the prefix is deleted, replaced by a regular file, or made anew
PrefixDeleted ==
    /\ pc \in {"idle", "done"}
    /\ Key(PrefixDir) \in DOMAIN fs
    /\ fs' = RemoveAll(fs, Key(PrefixDir)).F
    /\ UNCHANGED <<prefixEnv, pre, pc, call, up, res>>

PrefixReplacedByFile ==
    /\ pc \in {"idle", "done"}
    /\ Stat(fs, PrefixDir) # "file"
    /\ fs' = Overlay(RemoveAll(fs, Key(PrefixDir)).F, [k \in {Key(PrefixDir)} |-> FileNode("old")])
    /\ UNCHANGED <<prefixEnv, pre, pc, call, up, res>>

PrefixRecreated ==
    /\ pc \in {"idle", "done"}
    /\ Stat(fs, PrefixDir) # "dir"
    /\ fs' = MkdirAll(RemoveAll(fs, Key(PrefixDir)).F, Key(PrefixDir)).F
    /\ UNCHANGED <<prefixEnv, pre, pc, call, up, res>>

\* the paths of the requests: the root of the prefix, a directory in it, a path that
\* leaves it
RequestPaths == { <<".">>, <<"p">>, <<".",".","/","p">> }

\* the uploads of the requests: an archive with the file a, and a plain file
RequestUploads ==
    { Upload(<<"x",".","t","a","r">>, "raw", <<Entry(<<"a">>, "reg", "full")>>), Upload(<<"x">>, "raw", <<>>) }

InitRequests == InitOn({PrefixDir, <<"/","p","/">>}, {InitialFs(k) : k \in {"dir", "file", "missing"}})

NextRequests ==
    \/ ResolveRequest(RequestPaths)
    \/ UploadRequest(RequestPaths)
    \/ UploadRemove
    \/ UploadMkdir
    \/ UploadDispatch(RequestUploads)
    \/ ExtractHeader
    \/ ExtractStop
    \/ PrefixDeleted
    \/ PrefixReplacedByFile
    \/ PrefixRecreated

SpecRequests == InitRequests /\ [][NextRequests]_vars

\* ------------------------------------------------------------------------
\* requests served at once: every request runs in its own goroutine, and UploadFile and
\* ListDirectoryHandler take no lock, so the steps of two uploads and of a listing
\* interleave, one step for each access to the filesystem
\* ------------------------------------------------------------------------
\* extractTar on the headers rest, from the first header to the end of the stream
RECURSIVE ExtractAll(_, _, _, _, _, _)
ExtractAll(F, baseExtractDir, archiveName, rest, tail, seen) ==
    IF rest = <<>> THEN ExtractEnd(F, baseExtractDir, archiveName, tail, seen)
    ELSE LET r == ExtractEntry(F, baseExtractDir, archiveName, Head(rest)) IN
         IF r.ok THEN ExtractAll(r.F, baseExtractDir, archiveName, Tail(rest), tail, TRUE) ELSE r

\* UploadFile lines 214-306 on the target directory
DispatchAll(F, absValidatedTargetDir, fileName, payload) ==
    LET kind == Classify(fileName)
        view == TarView(payload, kind = "targz")
    IN  IF kind = "targz" /\ payload.enc # "gzip"
        THEN Fail(F, 223, <<fileName, GzipHeaderErr(payload)>>)
        ELSE IF kind \in {"targz", "tar"}
        THEN ExtractAll(F, absValidatedTargetDir, fileName, view.entries, view.tail, FALSE)
        ELSE IF kind = "gz" THEN UploadGz(F, absValidatedTargetDir, fileName, payload)
        ELSE UploadPlain(F, absValidatedTargetDir, fileName, payload)

\* one whole call of UploadFile on the filesystem F with no other request beside it
UploadFile(F, targetDirUserPath, isPut, fileName, payload) ==
    LET v == ValidateTarget(targetDirUserPath, prefixEnv, F)
        rm == IF isPut THEN PrepareRemove(F, v.path) ELSE Pass(F, 209, v.path)
        mk == PrepareMkdir(rm.F, v.path)
    IN  IF ~v.ok THEN v
        ELSE IF ~rm.ok THEN rm
        ELSE IF ~mk.ok THEN mk
        ELSE DispatchAll(mk.F, v.path, fileName, payload)

\* the two uploads
Uploaders == {"a", "b"}

\* their destinations under the prefix /p: /p/p, which holds the file o, the absent /p/q
\* beside it, and /p/p/p below the first
RaceTargets == { <<"p">>, <<"q">>, <<"p","/","p">> }

\* their payloads: an archive of the file a and the file d/b, an archive of the file o,
\* and a plain file
RaceUploads ==
    { Upload(<<"x",".","t","a","r">>, "raw", <<Entry(<<"a">>, "reg", "full"), Entry(<<"d","/","b">>, "reg", "full")>>),
      Upload(<<"x",".","t","a","r">>, "raw", <<Entry(<<"o">>, "reg", "zero")>>),
      Upload(<<"x">>, "raw", <<>>) }

\* the tree at and below the directory dir in F
Tree(F, dir) == [k \in {x \in DOMAIN F : IsUnder(x, Key(dir))} |-> F[k]]

\* the result of a request and, for an upload, the tree of its target when it returned
NoOutcome == [ret |-> NoRes, tree |-> <<>>]

InitRace ==
    /\ prefixEnv = PrefixDir
    /\ fs = InitialFs("dir")
    /\ pre = fs
    /\ pc = [i \in Uploaders |-> "idle"]
    /\ call = [i \in Uploaders \cup {"list"} |-> NoCall]
    /\ up = [i \in Uploaders |-> NoUp]
    /\ res = [i \in Uploaders \cup {"list"} |-> NoOutcome]

\* the upload i returns r
RaceReturn(i, r) ==
    /\ fs' = r.F
    /\ pc' = [pc EXCEPT ![i] = "done"]
    /\ res' = [res EXCEPT ![i] = [ret |-> Returned(r), tree |-> Tree(r.F, up[i].dir)]]

\* the upload i goes on to the step next
RaceGoOn(i, F, next) ==
    /\ fs' = F
    /\ pc' = [pc EXCEPT ![i] = next]
    /\ UNCHANGED res

\* lines 117-201 in the request i
RaceValidate(i) ==
    /\ pc[i] = "idle"
    /\ \E target \in RaceTargets : \E isPut \in BOOLEAN : \E u \in RaceUploads :
       \E r \in {ValidateTarget(target, prefixEnv, fs)} :
          /\ call' = [call EXCEPT ![i] = [op |-> "upload", path |-> target, isPut |-> isPut,
                                          fileName |-> u.fileName, payload |-> u.payload]]
          /\ up' = [up EXCEPT ![i].dir = r.path]
          /\ IF r.ok
             THEN RaceGoOn(i, fs, "remove")
             ELSE /\ fs' = r.F
                  /\ pc' = [pc EXCEPT ![i] = "done"]
                  /\ res' = [res EXCEPT ![i] = [ret |-> Returned(r), tree |-> <<>>]]
    /\ UNCHANGED <<prefixEnv, pre>>

\* lines 203-209 in the request i
RaceRemove(i) ==
    /\ pc[i] = "remove"
    /\ \E r \in {PrepareRemove(fs, up[i].dir)} :
          IF ~call[i].isPut THEN RaceGoOn(i, fs, "mkdir")
          ELSE IF r.ok THEN RaceGoOn(i, r.F, "mkdir")
          ELSE RaceReturn(i, r)
    /\ UNCHANGED <<prefixEnv, pre, call, up>>

\* lines 210-212 in the request i
RaceMkdir(i) ==
    /\ pc[i] = "mkdir"
    /\ \E r \in {PrepareMkdir(fs, up[i].dir)} :
          IF r.ok THEN RaceGoOn(i, r.F, "dispatch") ELSE RaceReturn(i, r)
    /\ UNCHANGED <<prefixEnv, pre, call, up>>

\* lines 214-306 in the request i
RaceDispatch(i) ==
    /\ pc[i] = "dispatch"
    /\ \E kind \in {Classify(call[i].fileName)} :
          IF kind = "targz" /\ call[i].payload.enc # "gzip"
          THEN /\ RaceReturn(i, Fail(fs, 223, <<call[i].fileName, GzipHeaderErr(call[i].payload)>>))
               /\ UNCHANGED up
          ELSE IF kind \in {"targz", "tar"}
          THEN /\ RaceGoOn(i, fs, "extract")
               /\ up' = [up EXCEPT ![i].rest = TarView(call[i].payload, kind = "targz").entries,
                                   ![i].tail = TarView(call[i].payload, kind = "targz").tail]
          ELSE IF kind = "gz"
          THEN RaceReturn(i, UploadGz(fs, up[i].dir, call[i].fileName, call[i].payload)) /\ UNCHANGED up
          ELSE RaceReturn(i, UploadPlain(fs, up[i].dir, call[i].fileName, call[i].payload)) /\ UNCHANGED up
    /\ UNCHANGED <<prefixEnv, pre, call>>

\* extractTar lines 316-367 in the request i
RaceHeader(i) ==
    /\ pc[i] = "extract"
    /\ up[i].rest # <<>>
    /\ \E r \in {ExtractEntry(fs, up[i].dir, call[i].fileName, Head(up[i].rest))} :
          IF r.ok
          THEN /\ RaceGoOn(i, r.F, "extract")
               /\ up' = [up EXCEPT ![i].rest = Tail(up[i].rest), ![i].seen = TRUE]
          ELSE /\ RaceReturn(i, r)
               /\ up' = [up EXCEPT ![i].seen = TRUE]
    /\ UNCHANGED <<prefixEnv, pre, call>>

\* extractTar lines 316-326 and 369 in the request i
RaceStop(i) ==
    /\ pc[i] = "extract"
    /\ up[i].rest = <<>>
    /\ \E r \in {ExtractEnd(fs, up[i].dir, call[i].fileName, up[i].tail, up[i].seen)} : RaceReturn(i, r)
    /\ UNCHANGED <<prefixEnv, pre, call, up>>

\* a listing request for the destination of the upload a, served once while a is at work
RaceList ==
    /\ pc["a"] \notin {"idle", "done"}
    /\ call["list"].op = "none"
    /\ call' = [call EXCEPT !["list"] = [NoCall EXCEPT !.op = "list", !.path = call["a"].path]]
    /\ \E r \in {ResolveAndValidatePath(call["a"].path, prefixEnv, fs)} :
       \E l \in {IF r.ok THEN ListDirectory(fs, r.targetDir, call["a"].path) ELSE NoListing} :
          res' = [res EXCEPT !["list"] = [ret |-> ListingRecord(r, l), tree |-> <<>>]]
    /\ UNCHANGED <<prefixEnv, fs, pre, pc, up>>

NextRace ==
    \/ \E i \in Uploaders : RaceValidate(i)
    \/ \E i \in Uploaders : RaceRemove(i)
    \/ \E i \in Uploaders : RaceMkdir(i)
    \/ \E i \in Uploaders : RaceDispatch(i)
    \/ \E i \in Uploaders : RaceHeader(i)
    \/ \E i \in Uploaders : RaceStop(i)
    \/ RaceList

SpecRace == InitRace /\ [][NextRace]_vars

\* ------------------------------------------------------------------------
\* two uploads, one after the other, that differ in the name the client gives the file
\* ------------------------------------------------------------------------
\* the outcome of the upload that has just returned: the line it failed at and the
\* status of the response, line 0 before the first
LastStatus ==
    IF pc = "done" THEN [line |-> res.line, ok |-> res.ok, http |-> res.http, grpc |-> res.grpc,
                         fileName |-> call.fileName]
    ELSE [line |-> 0, ok |-> FALSE, http |-> 0, grpc |-> "none", fileName |-> <<>>]

\* an upload request validates its destination
StatusRequest(targets) ==
    /\ pc \in {"idle", "done"}
    /\ \E target \in targets : \E r \in {ValidateTarget(target, prefixEnv, fs)} :
          /\ call' = [op |-> "upload", path |-> target, isPut |-> FALSE, fileName |-> <<>>,
                      payload |-> NoPayload, prev |-> LastStatus]
          /\ IF r.ok
             THEN /\ pc' = "remove"
                  /\ up' = [NoUp EXCEPT !.dir = r.path]
                  /\ res' = NoRes
                  /\ UNCHANGED fs
             ELSE /\ Return(r)
                  /\ up' = NoUp
    /\ pre' = fs
    /\ UNCHANGED prefixEnv

\* the uploads: a tar stream without a header and bytes that are no gzip stream, each
\* under a name of the model's alphabet and under a name that holds a word the
\* transports look for, and an archive of the file a
StatusUploads ==
    { Upload(<<"x",".","t","a","r">>, "raw", <<>>),
      Upload(<<"f","o","r","b","i","d","d","e","n",".","t","a","r">>, "raw", <<>>),
      Upload(<<"x",".","g","z">>, "raw", <<>>),
      Upload(<<"a","r","c","h","i","v","e",".","g","z">>, "raw", <<>>),
      Upload(<<"x",".","t","a","r">>, "raw", <<Entry(<<"a">>, "reg", "full")>>) }

StatusTargets == { <<"p">>, <<".",".","/","p">> }

InitStatus == InitOn({PrefixDir}, {InitialFs(k) : k \in {"dir", "file"}})

NextStatus ==
    \/ StatusRequest(StatusTargets)
    \/ UploadRemove
    \/ UploadMkdir
    \/ UploadDispatch(StatusUploads)
    \/ ExtractHeader
    \/ ExtractStop

SpecStatus == InitStatus /\ [][NextStatus]_vars

\* ------------------------------------------------------------------------
\* what the properties speak of
\* ------------------------------------------------------------------------
\* PATH_PREFIX restricts the server ("", "." and "/" do not)
NonTrivialPrefix == CleanedPathPrefix(prefixEnv) # <<>>

\* the directory the call must stay in: the prefix, or the working directory without one
EffectiveBase == IF NonTrivialPrefix THEN Abs(CleanedPathPrefix(prefixEnv)) ELSE Cwd

\* the nodes the call has created, removed, or created, removed or rewritten so far
Created == (DOMAIN fs) \ (DOMAIN pre)

Removed == (DOMAIN pre) \ (DOMAIN fs)

Changed == Created \cup Removed \cup {k \in (DOMAIN fs) \cap (DOMAIN pre) : fs[k] # pre[k]}

\* the elements of a path as written, "." and ".." included
HasDotDot(path) == \E i \in 1..Len(Split(path)) : Split(path)[i] = DotDot

\* k is a canonical key: no "." or ".." element
Canonical(k) == \A i \in 1..Len(k) : k[i] # DotDot /\ k[i] # <<".">>

\* an upload of an archive has returned after its payload was dispatched
Extracted == call.op = "upload" /\ pc = "done" /\ Classify(call.fileName) \in {"tar", "targz"}

\* the headers the tar reader of the call can decode from the payload
DecodedEntries ==
    IF Classify(call.fileName) = "targz" /\ call.payload.enc # "gzip" THEN <<>>
    ELSE TarView(call.payload, Classify(call.fileName) = "targz").entries

\* the canonical name of the entry is absolute or begins with a ".." element
UnsafeEntry(h) ==
    \/ IsAbs(Clean(h.name))
    \/ Split(Clean(h.name)) # <<>> /\ Head(Split(Clean(h.name))) = DotDot

\* the target directory of the upload and the place of an entry in it
TargetKey == Split(up.dir)

\* k is outside the target directory: neither in it nor the target or one of the parent
\* directories os.MkdirAll makes for it
OutsideTarget(k) == ~IsUnder(k, TargetKey) /\ ~IsUnder(TargetKey, k)

\* k is in the target directory
InsideTarget(k) == IsUnder(k, TargetKey) /\ k # TargetKey

EntryKey(h) == Split(up.dir) \o Split(Clean(h.name))

\* the content a fully written regular entry leaves in its file
ContentOf(h) == IF h.data = "zero" THEN "empty" ELSE "new"

\* the entries extracted before the one extraction stopped at
Earlier == SubSeq(DecodedEntries, 1, Len(DecodedEntries) - Len(up.rest))

Forbidden == res.http = 403 /\ res.grpc = "PermissionDenied"

BadFormat == res.http = 400 /\ res.grpc = "InvalidArgument"

\* ------------------------------------------------------------------------
\* C1 (Spec): with a non-trivial PATH_PREFIX, at every point of every upload, each node
\* of the filesystem that was created, removed or rewritten since the call began lies at
\* or below the prefix directory
\* ------------------------------------------------------------------------
C1_OnlyBelowPrefix ==
    (call.op = "upload" /\ NonTrivialPrefix) =>
        \A k \in Changed : IsUnder(k, Split(EffectiveBase))

\* a replace-mode upload under a prefix has removed nodes and created nodes
C1_Witness ==
    /\ call.op = "upload" /\ NonTrivialPrefix /\ pc = "done"
    /\ call.isPut /\ Removed # {} /\ Created # {}

\* ------------------------------------------------------------------------
\* C2 (SpecResolve): whenever ResolveAndValidatePath succeeds, the resolved path is
\* canonical and is the effective base directory or lies below it
\* ------------------------------------------------------------------------
C2_ResolvedInsideBase ==
    (call.op = "resolve" /\ pc = "done" /\ res.ok) =>
        /\ IsAbs(res.path)
        /\ Canonical(Split(res.path))
        /\ IsUnder(Split(res.path), Split(EffectiveBase))

\* an absolute path inside the prefix with a ".." element has been resolved
C2_Witness ==
    /\ call.op = "resolve" /\ pc = "done" /\ res.ok
    /\ NonTrivialPrefix /\ IsAbs(call.path) /\ HasDotDot(call.path)

\* ------------------------------------------------------------------------
\* C3 (SpecExtract), as the claim states it: an archive with an unsafe entry at any
\* position fails in the Forbidden category and creates nothing outside the target
\* ------------------------------------------------------------------------
C3_AnyUnsafeEntryForbidden ==
    (Extracted /\ \E i \in 1..Len(DecodedEntries) : UnsafeEntry(DecodedEntries[i])) =>
        /\ ~res.ok
        /\ Forbidden
        /\ \A k \in Created : ~OutsideTarget(k)

\* C3 (SpecExtract), amended: an archive with an unsafe entry at any position fails and
\* creates nothing outside the target; extraction stops at an entry no later than the
\* unsafe one, and the failure is Forbidden when it stops at an unsafe entry
C3_TarSlip ==
    (Extracted /\ \E i \in 1..Len(DecodedEntries) : UnsafeEntry(DecodedEntries[i])) =>
        /\ ~res.ok
        /\ \A k \in Created : ~OutsideTarget(k)
        /\ up.rest # <<>>
        /\ \A i \in 1..Len(Earlier) : ~UnsafeEntry(Earlier[i])
        /\ UnsafeEntry(Head(up.rest)) => Forbidden

\* the first entry was extracted into the target, the second one is unsafe and was refused
C3_Witness ==
    /\ Extracted /\ Len(DecodedEntries) = 2 /\ Len(up.rest) = 1
    /\ ~UnsafeEntry(DecodedEntries[1]) /\ DecodedEntries[1].typ = "reg"
    /\ UnsafeEntry(DecodedEntries[2])
    /\ EntryKey(DecodedEntries[1]) \in Created
    /\ ~res.ok /\ Forbidden

\* ------------------------------------------------------------------------
\* C4 (SpecResolve), as the claim states it: a path with ".." elements that leaves the
\* effective base fails as Forbidden, and the prefix is not statted before it fails
\* ------------------------------------------------------------------------
C4_TraversalForbiddenBeforeStat ==
    (/\ call.op = "resolve" /\ pc = "done"
     /\ HasDotDot(call.path)
     /\ ~IsUnder(Split(IF IsAbs(call.path) THEN Clean(call.path)
                       ELSE Join(EffectiveBase, call.path)),
                 Split(EffectiveBase))) =>
        /\ ~res.ok
        /\ res.http = 403
        /\ ~res.statted

\* ------------------------------------------------------------------------
\* C5 (SpecExtract): an archive upload succeeds only if a tar header was decoded; when
\* none can be decoded (empty tar, empty gzip, gzip that holds no tar, no gzip header) it
\* fails as BadFormat and creates nothing but the target directory and its missing parents
\* ------------------------------------------------------------------------
C5_NoSuccessWithoutHeader ==
    Extracted =>
        /\ res.ok => (up.seen /\ DecodedEntries # <<>>)
        /\ DecodedEntries = <<>> =>
              (~res.ok /\ BadFormat /\ \A k \in Created : ~InsideTarget(k) /\ ~OutsideTarget(k))

\* x.tar.gz or x.tgz whose bytes are gzip but hold no tar stream was refused as BadFormat
C5_Witness ==
    /\ Extracted /\ Classify(call.fileName) = "targz"
    /\ call.payload.enc = "gzip" /\ call.payload.entries = <<>> /\ call.payload.tail = "bad"
    /\ ~res.ok /\ BadFormat

\* ------------------------------------------------------------------------
\* C6 (SpecExtract): after a successful archive upload the target is a directory that
\* holds every file and directory entry of the archive; in replace mode it holds nothing
\* else, in merge mode everything that was there before is still there, unchanged unless
\* a file entry of the archive overwrote it
\* ------------------------------------------------------------------------
C6_ReplaceVersusMerge ==
    (Extracted /\ res.ok) =>
        /\ TargetKey \in DOMAIN fs /\ fs[TargetKey].kind = "dir"
        /\ \A i \in 1..Len(DecodedEntries) :
              LET h == DecodedEntries[i] IN
              /\ h.typ = "reg" => (EntryKey(h) \in DOMAIN fs /\ fs[EntryKey(h)] = FileNode(ContentOf(h)))
              /\ h.typ = "dir" => (EntryKey(h) \in DOMAIN fs /\ fs[EntryKey(h)].kind = "dir")
        /\ call.isPut =>
              \A k \in DOMAIN fs :
                  InsideTarget(k) =>
                      /\ fs[k].data # "old"
                      /\ \E i \in 1..Len(DecodedEntries) :
                            /\ DecodedEntries[i].typ \in {"reg", "dir"}
                            /\ IsUnder(EntryKey(DecodedEntries[i]), k)
        /\ ~call.isPut =>
              \A k \in DOMAIN pre :
                  /\ k \in DOMAIN fs
                  /\ \/ fs[k] = pre[k]
                     \/ \E i \in 1..Len(DecodedEntries) :
                           DecodedEntries[i].typ = "reg" /\ EntryKey(DecodedEntries[i]) = k

\* a replace-mode upload into the directory that held the file o: o is gone, a new file is there
C6_Witness ==
    /\ Extracted /\ res.ok /\ call.isPut
    /\ \E k \in Removed : IsUnder(k, TargetKey) /\ pre[k].kind = "file"
    /\ \E k \in Created : IsUnder(k, TargetKey) /\ fs[k] = FileNode("new")

\* ------------------------------------------------------------------------
\* C7 (SpecExtract), as the claim states it: when copying the content of an entry fails,
\* the upload fails, the file of that entry does not exist, and the file of every regular
\* entry extracted before it exists with its whole content
\* ------------------------------------------------------------------------
C7_EarlierFilesKept ==
    (Extracted /\ ~res.ok /\ res.line = 361) =>
        /\ EntryKey(Head(up.rest)) \notin DOMAIN fs
        /\ \A i \in 1..Len(Earlier) :
              Earlier[i].typ = "reg" =>
                  /\ EntryKey(Earlier[i]) \in DOMAIN fs
                  /\ fs[EntryKey(Earlier[i])] = FileNode(ContentOf(Earlier[i]))

\* C7 (SpecExtract), amended: when copying the content of an entry fails, the upload
\* fails, the file of that entry does not exist, and the file of every regular entry
\* extracted before it under another path exists with its whole content
C7_OtherEarlierFilesKept ==
    (Extracted /\ res.line = 361) =>
        /\ ~res.ok
        /\ EntryKey(Head(up.rest)) \notin DOMAIN fs
        /\ \A i \in 1..Len(Earlier) :
              (Earlier[i].typ = "reg" /\ EntryKey(Earlier[i]) # EntryKey(Head(up.rest))) =>
                  /\ EntryKey(Earlier[i]) \in DOMAIN fs
                  /\ fs[EntryKey(Earlier[i])] = FileNode(ContentOf(Earlier[i]))

\* a file was written from the first entry, then the content of the second was cut off
C7_Witness ==
    /\ Extracted /\ res.line = 361 /\ Len(Earlier) = 1
    /\ Earlier[1].typ = "reg" /\ Earlier[1].data = "full"
    /\ EntryKey(Earlier[1]) # EntryKey(Head(up.rest))
    /\ EntryKey(Earlier[1]) \in Created

\* ------------------------------------------------------------------------
\* C8 (Spec), as the claim states it: an upload refused at one of the boundary checks of
\* UploadFile and extractTar (the lines that return because the destination, the file
\* target or an entry is outside the boundary) is reported as Forbidden by both transports
\* ------------------------------------------------------------------------
BoundaryLines == {136, 151, 200, 256, 280, 285, 330, 335}

C8_BoundaryRejectionForbidden ==
    (call.op = "upload" /\ pc = "done" /\ ~res.ok /\ res.line \in BoundaryLines) => Forbidden

\* ------------------------------------------------------------------------
\* C9 (SpecExtract), as the claim states it: a payload without a gzip header uploaded
\* under a name ending in .gz, .tgz or .tar.gz fails as BadFormat and creates no file
\* ------------------------------------------------------------------------
C9_BadGzipHeaderBadFormat ==
    (/\ call.op = "upload" /\ pc = "done"
     /\ Classify(call.fileName) \in {"gz", "targz"}
     /\ call.payload.enc = "raw") =>
        /\ ~res.ok
        /\ \A k \in Created : ~InsideTarget(k) /\ ~OutsideTarget(k)
        /\ BadFormat

\* ------------------------------------------------------------------------
\* C10 (SpecResolve), as the claim states it: without a prefix, an absolute path that
\* names a place outside the working directory fails with 'resolved path outside CWD'
\* ------------------------------------------------------------------------
C10_AbsoluteOutsideCwdForbidden ==
    (/\ call.op = "resolve" /\ pc = "done"
     /\ ~NonTrivialPrefix
     /\ IsAbs(call.path)
     /\ ~IsUnder(Split(Clean(call.path)), Split(Cwd))) =>
        /\ ~res.ok
        /\ Contains(res.err, <<"r","e","s","o","l","v","e","d"," ","p","a","t","h"," ","o","u","t","s","i","d","e"," ","C","W","D">>)

\* ------------------------------------------------------------------------
\* the outcome of a call of ResolveAndValidatePath: whether it succeeded and, when it
\* did, the pair (resolvedPath, displayPath)
\* ------------------------------------------------------------------------
Outcome(r) == IF r.ok THEN <<TRUE, r.targetDir, r.displayPath>> ELSE <<FALSE, <<>>, <<>>>>

ReturnedOutcome == IF res.ok THEN <<TRUE, res.path, res.display>> ELSE <<FALSE, <<>>, <<>>>>

\* the prefix is active and names a directory
PrefixIsDir == NonTrivialPrefix /\ Stat(fs, CleanedPathPrefix(prefixEnv)) = "dir"

\* the ways the prefix P is written: as configured, and cleaned
PrefixSpellings == {prefixEnv, CleanedPathPrefix(prefixEnv)}

\* the inputs that name the root of the prefix
RootInputs == {<<>>, <<".">>, <<"/">>} \cup PrefixSpellings \cup {P \o <<"/">> : P \in PrefixSpellings}

\* ------------------------------------------------------------------------
\* C11 (SpecResolve), as the claim states it: with an active prefix P that is a
\* directory, a relative path p and the absolute path P/p have the same outcome of
\* ResolveAndValidatePath (both fail, or both succeed with the same resolved path and
\* display path); the inputs "", ".", "/", P and P with a trailing separator resolve to
\* (P, "/")
\* ------------------------------------------------------------------------
C11_RelativeAndAbsoluteAgree ==
    (call.op = "resolve" /\ pc = "done" /\ PrefixIsDir) =>
        /\ ~IsAbs(call.path) =>
              \A P \in PrefixSpellings :
                  Outcome(ResolveAndValidatePath(P \o <<"/">> \o call.path, prefixEnv, fs)) = ReturnedOutcome
        /\ call.path \in RootInputs =>
              ReturnedOutcome = <<TRUE, Abs(CleanedPathPrefix(prefixEnv)), <<"/">>>>

\* C11 (SpecResolve), amended: the same for every relative path p whose cleaned form
\* does not begin with ".."; a relative path whose cleaned form begins with ".." is
\* refused as forbidden before the prefix is statted, whatever P/p resolves to
C11_AgreeUnlessLeadingDotDot ==
    (call.op = "resolve" /\ pc = "done" /\ PrefixIsDir) =>
        /\ (~IsAbs(call.path) /\ ~HasPrefix(Clean(call.path), DotDot)) =>
              \A P \in PrefixSpellings :
                  Outcome(ResolveAndValidatePath(P \o <<"/">> \o call.path, prefixEnv, fs)) = ReturnedOutcome
        /\ (~IsAbs(call.path) /\ HasPrefix(Clean(call.path), DotDot)) =>
              (~res.ok /\ res.line = 44 /\ res.http = 403 /\ ~res.statted)
        /\ call.path \in RootInputs =>
              ReturnedOutcome = <<TRUE, Abs(CleanedPathPrefix(prefixEnv)), <<"/">>>>

\* the relative path p/p was resolved to /p/p/p with display /p/p, as /p/p/p is
C11_Witness ==
    /\ call.op = "resolve" /\ pc = "done" /\ PrefixIsDir
    /\ call.path = <<"p","/","p">>
    /\ ReturnedOutcome = <<TRUE, <<"/","p","/","p","/","p">>, <<"/","p","/","p">>>>
    /\ Outcome(ResolveAndValidatePath(<<"/","p","/","p","/","p">>, prefixEnv, fs)) = ReturnedOutcome

StaysInBase(path) ==
    IsUnder(Split(IF IsAbs(path) THEN Clean(path) ELSE Join(EffectiveBase, path)),
            Split(EffectiveBase))

\* the conditions a failed resolve is in, by the text the transports look for
NotFoundCondition == Contains(res.err, <<"n","o","t"," ","f","o","u","n","d">>)

InvalidTypeCondition == Contains(res.err, <<"i","s"," ","n","o","t"," ","a"," ","d","i","r","e","c","t","o","r","y">>)

ForbiddenCondition == Contains(res.err, <<"f","o","r","b","i","d","d","e","n">>)

\* ------------------------------------------------------------------------
\* C13 (SpecResolve), as the claim states it: with a configured prefix and a client path
\* that stays in the base, resolve fails with the not-found condition (HTTP 404) when the
\* prefix does not exist and with the invalid-type condition (HTTP 400) when the prefix
\* is not a directory; the two conditions exclude each other and Forbidden
\* ------------------------------------------------------------------------
C13_PrefixNotFoundOrInvalidType ==
    (call.op = "resolve" /\ pc = "done" /\ NonTrivialPrefix /\ StaysInBase(call.path)) =>
        /\ Stat(fs, CleanedPathPrefix(prefixEnv)) = "notexist" =>
              /\ ~res.ok /\ res.http = 404
              /\ NotFoundCondition /\ ~InvalidTypeCondition /\ ~ForbiddenCondition
        /\ Stat(fs, CleanedPathPrefix(prefixEnv)) = "file" =>
              /\ ~res.ok /\ res.http = 400
              /\ InvalidTypeCondition /\ ~NotFoundCondition /\ ~ForbiddenCondition

\* ------------------------------------------------------------------------
\* the handlers of UploadFile, by the lines they return from: gzip-then-tar extraction
\* (line 223 and extractTar), tar extraction (extractTar), the single-file decompressor
\* (lines 242-276) and the plain copy (lines 280-305)
\* ------------------------------------------------------------------------
ExtractLines == {320, 324, 330, 335, 341, 345, 349, 361, 369}

GzipTarLines == {223} \cup ExtractLines

GzLines == {242, 256, 259, 264, 274, 276}

PlainLines == {280, 285, 288, 293, 303, 305}

\* an upload has returned from one of the handlers
Dispatched == call.op = "upload" /\ pc = "done" /\ res.line >= 223

\* the name ends, in any letter case, in the suffix
EndsIn(name, suffix) == HasSuffix(ToLower(name), suffix)

\* the files the call created that are not the file of an entry of the payload
StrayFiles ==
    {k \in Created : fs[k].kind = "file"
                     /\ \A i \in 1..Len(call.payload.entries) : k # EntryKey(call.payload.entries[i])}

\* ------------------------------------------------------------------------
\* C14 (SpecDispatch): every file name is handled by exactly one handler, chosen by its
\* suffix (in any letter case) in the order .tar.gz/.tgz, .tar, .gz, plain; a name ending
\* in .tar.gz or .tgz is handled by gzip-then-tar extraction (a payload without gzip
\* header is refused by the gzip reader at line 223, a gzipped tar stream is extracted),
\* never by the single-file decompressor or the plain copy, and .tar reads the bytes as
\* they are (a gzipped stream is no tar stream)
\* ------------------------------------------------------------------------
C14_SuffixPrecedence ==
    Dispatched =>
        /\ Cardinality({L \in {GzipTarLines, GzLines, PlainLines} : res.line \in L}) = 1
        /\ IF EndsIn(call.fileName, <<".","t","a","r",".","g","z">>) \/ EndsIn(call.fileName, <<".","t","g","z">>)
           THEN /\ res.line \in GzipTarLines
                /\ (call.payload.enc = "raw") <=> (res.line = 223)
                /\ (call.payload.enc = "gzip" /\ call.payload.entries # <<>>) =>
                      (res.ok /\ \A i \in 1..Len(call.payload.entries) :
                                    EntryKey(call.payload.entries[i]) \in DOMAIN fs)
                /\ StrayFiles = {}
           ELSE IF EndsIn(call.fileName, <<".","t","a","r">>)
           THEN /\ res.line \in ExtractLines
                /\ call.payload.enc = "gzip" => (res.line = 324 /\ ~up.seen)
                /\ StrayFiles = {}
           ELSE IF EndsIn(call.fileName, <<".","g","z">>)
           THEN res.line \in GzLines
           ELSE res.line \in PlainLines

\* a gzipped tar stream named .tar.gz (written .tar.GZ) was extracted
C14_Witness ==
    /\ Dispatched /\ call.fileName = <<"x",".","t","a","r",".","G","Z">>
    /\ call.payload.enc = "gzip" /\ call.payload.entries # <<>>
    /\ res.ok /\ res.line = 369
    /\ EntryKey(call.payload.entries[1]) \in Created

\* ------------------------------------------------------------------------
\* the directory the destination of the upload names: an absolute destination itself, a
\* relative one below the prefix or the working directory
\* ------------------------------------------------------------------------
NamedTargetDir == IF IsAbs(call.path) THEN Clean(call.path) ELSE Join(EffectiveBase, call.path)

\* the name ends in one of the archive suffixes
ArchiveName(name) == EndsIn(name, <<".","t","a","r">>) \/ EndsIn(name, <<".","t","g","z">>) \/ EndsIn(name, <<".","t","a","r",".","g","z">>)

\* the regular files the call wrote: created, or not what they were before
WrittenFiles ==
    {k \in DOMAIN fs : fs[k].kind = "file" /\ (k \notin DOMAIN pre \/ fs[k] # pre[k])}

\* ------------------------------------------------------------------------
\* C15 (SpecDispatch): a successful upload returns a clean absolute path: for an archive
\* the target directory the destination names, which is a directory; for a lone gzip or
\* plain file the path of a file in the target directory that exists with the whole
\* content and is the one file the call wrote. A failed upload returns the empty path
\* with an error, and a failure of the validation leaves the filesystem as it was
\* ------------------------------------------------------------------------
C15_ReturnsMaterializedPath ==
    (call.op = "upload" /\ pc = "done") =>
        /\ res.ok =>
              /\ Dispatched
              /\ IsAbs(res.path) /\ res.path = Clean(res.path)
              /\ up.dir = NamedTargetDir
              /\ IF ArchiveName(call.fileName)
                 THEN res.path = NamedTargetDir /\ Stat(fs, res.path) = "dir"
                 ELSE /\ InsideTarget(Key(res.path))
                      /\ Key(res.path) \in DOMAIN fs
                      /\ fs[Key(res.path)] = FileNode("new")
                      /\ WrittenFiles = {Key(res.path)}
        /\ ~res.ok =>
              /\ res.path = <<>> /\ res.err # <<>>
              /\ res.line < 203 => fs = pre

\* the lone gzip file x.gz was decompressed to /p/pp/x, the path returned
C15_Witness ==
    /\ call.op = "upload" /\ pc = "done" /\ res.ok
    /\ call.fileName = <<"x",".","g","z">> /\ call.path = <<"p","p">>
    /\ res.path = <<"/","p","/","p","p","/","x">>
    /\ fs[Key(res.path)] = FileNode("new")

\* ------------------------------------------------------------------------
\* the upload is one the dispatcher takes for a lone gzip payload
\* ------------------------------------------------------------------------
LoneGzip == Dispatched /\ EndsIn(call.fileName, <<".","g","z">>) /\ ~ArchiveName(call.fileName)

\* the source name with its suffix .gz removed, or the placeholder name
StrippedName ==
    IF Len(call.fileName) = 3 THEN <<"g","z","i","p","p","e","d","_","f","i","l","e">>
    ELSE SubSeq(call.fileName, 1, Len(call.fileName) - 3)

\* the file that name stands for in the target directory
StrippedKey == Key(up.dir \o <<"/">> \o StrippedName)

\* ------------------------------------------------------------------------
\* C16 (SpecDispatch), as the claim states it: an upload dispatched as a lone gzip
\* payload that succeeds has written exactly one file, the one named by the source name
\* without its suffix .gz (gzipped_file when nothing is left), with the decompressed
\* content, inside the target directory; a name that stands for a place outside the
\* target directory is refused and no file is written or created
\* ------------------------------------------------------------------------
C16_LoneGzipWritesStrippedName ==
    LoneGzip =>
        /\ res.ok =>
              /\ WrittenFiles = {StrippedKey}
              /\ fs[StrippedKey] = FileNode("new")
              /\ InsideTarget(StrippedKey)
        /\ OutsideTarget(StrippedKey) =>
              /\ ~res.ok /\ res.line \in {242, 256}
              /\ WrittenFiles = {} /\ \A k \in Created : fs[k].kind = "dir" /\ ~InsideTarget(k)

\* ------------------------------------------------------------------------
\* the listing holds an entry of that name and kind
\* ------------------------------------------------------------------------
HasEntry(name, type) == \E e \in res.entries : e.Name = name /\ e.Type = type

\* ------------------------------------------------------------------------
\* C17 (SpecRoundTrip), as the claim states it: after an upload of the archive with the
\* files a and d/b that succeeded on the destination path T, the listing of T under the
\* same prefix succeeds and holds a as a file and d as a directory, and the listing of
\* T/d succeeds and holds b as a file
\* ------------------------------------------------------------------------
C17_UploadThenList ==
    /\ pc = "listed" => (res.ok /\ HasEntry(<<"a">>, "file") /\ HasEntry(<<"d">>, "directory"))
    /\ pc = "listedsub" => (res.ok /\ HasEntry(<<"b">>, "file"))

\* ------------------------------------------------------------------------
\* a listing request has been answered with a listing
\* ------------------------------------------------------------------------
ListedOk == call.op = "list" /\ pc = "done" /\ res.ok

\* the view is the root: the display path is "/"
RootView == res.display = <<"/">>

\* ------------------------------------------------------------------------
\* C18 (SpecList), as the claim states it: in every listing that succeeds the parent
\* link is empty exactly when the display path is "/"; this is so for "", ".", "/" and,
\* under a prefix, for the prefix itself; the listing of an empty directory that is not
\* the root has no entries and a parent link
\* ------------------------------------------------------------------------
C18_ParentLinkEmptyAtRoot ==
    ListedOk =>
        /\ (res.parentLink = <<>>) <=> RootView
        /\ call.path \in {<<>>, <<".">>, <<"/">>} => (RootView /\ res.parentLink = <<>>)
        /\ (NonTrivialPrefix /\ call.path \in PrefixSpellings) => (RootView /\ res.parentLink = <<>>)
        /\ (ChildrenOf(fs, Key(res.path)) = {} /\ ~RootView) =>
              (res.entries = {} /\ res.parentLink # <<>>)

\* ------------------------------------------------------------------------
\* the listed directory, its children, and what the listing says of a child
\* ------------------------------------------------------------------------
ListedDir == Key(res.path)

\* a symbolic link whose target does not exist
BrokenLink(x) == fs[x].kind = "link" /\ Key(fs[x].target) \notin DOMAIN fs

\* a symbolic link to a regular file
LinkToFile(x) ==
    fs[x].kind = "link" /\ Key(fs[x].target) \in DOMAIN fs /\ fs[Key(fs[x].target)].kind = "file"

\* the child is a directory, or a symbolic link to one
IsDirectoryChild(x) ==
    \/ fs[x].kind = "dir"
    \/ fs[x].kind = "link" /\ Key(fs[x].target) \in DOMAIN fs /\ fs[Key(fs[x].target)].kind = "dir"

EntriesNamed(name) == {e \in res.entries : e.Name = name}

\* the display directory joined with a name
DisplayJoin(name) == Join(res.display, name)

\* the request path as written, cleaned and made to begin with "/", joined with a name
RequestJoin(name) ==
    IF Clean(call.path) \in {<<".">>, <<"/">>} THEN <<"/">> \o name
    ELSE IF IsAbs(call.path) THEN Clean(call.path) \o <<"/">> \o name
    ELSE <<"/">> \o Clean(call.path) \o <<"/">> \o name

\* the entries are those of the immediate children, one each, none for a broken link
EntriesAreChildren ==
    /\ \A e \in res.entries : \E x \in ChildrenOf(fs, ListedDir) : x[Len(x)] = e.Name
    /\ \A x \in ChildrenOf(fs, ListedDir) :
          Cardinality(EntriesNamed(x[Len(x)])) = (IF BrokenLink(x) THEN 0 ELSE 1)

\* kind and size: a link to a file is a file of the target's size, a directory has no size
EntriesKindAndSize ==
    \A x \in ChildrenOf(fs, ListedDir) : \A e \in EntriesNamed(x[Len(x)]) :
        /\ LinkToFile(x) =>
              (e.Type = "file" /\ e.Size = formatFileSizeService(fs[Key(fs[x].target)].size))
        /\ IsDirectoryChild(x) => (e.Type = "directory" /\ e.Size = <<>>)
        /\ fs[x].kind = "file" => (e.Type = "file" /\ e.Size = formatFileSizeService(fs[x].size))

ListedFileSize == fs[Key(Cwd \o <<"/","o">>)].size

ShownSize == (CHOOSE e \in res.entries : e.Name = <<"o">>).Size

FormatListed == ListedOk /\ Key(Cwd \o <<"/","o">>) \in DOMAIN fs /\ \E e \in res.entries : e.Name = <<"o">>

\* the letter of the greatest power of 1024 that does not exceed a size of two or more
\* digits to the base 1024: the power is the number of digits less one
LargestUnitLetter(size) == <<"K", "M", "G", "T", "P", "E">>[Len(size) - 1]

\* ------------------------------------------------------------------------
\* C20 (SpecFormat): a size n from 0 to 1023 is shown as "<n> B", 1024 as "1.0 KiB"
\* and 1048576 as "1.0 MiB"; every size from 1024 up to the greatest signed 64-bit
\* integer is shown with the letter of the greatest power of 1024 that does not exceed
\* it, and the index into the letters K, M, G, T, P, E is never out of range
\* ------------------------------------------------------------------------
C20_SizeFormatting ==
    FormatListed =>
        /\ Len(ListedFileSize) <= 1 => ShownSize = Dec(SmallValue(ListedFileSize)) \o <<" ","B">>
        /\ ListedFileSize = <<1, 0>> => ShownSize = <<"1",".","0"," ","K","i","B">>
        /\ ListedFileSize = <<1, 0, 0>> => ShownSize = <<"1",".","0"," ","M","i","B">>
        /\ ShownSize # IndexPanic
        /\ Len(ListedFileSize) >= 2 =>
              /\ Len(ListedFileSize) - 1 \in 1..6
              /\ SubSeq(ShownSize, Len(ShownSize) - 3, Len(ShownSize))
                    = <<" ", LargestUnitLetter(ListedFileSize)>> \o <<"i","B">>

\* the greatest signed 64-bit integer has been shown, in EiB
C20_Witness ==
    /\ FormatListed
    /\ ListedFileSize = MaxInt64
    /\ ShownSize = <<"8",".","0"," ","E","i","B">>

\* ------------------------------------------------------------------------
\* the gRPC upload: the stream broke the protocol
\* ------------------------------------------------------------------------
GrpcStarted == call.op = "grpc"

\* the first message carried no FileInfo (or there was none), its FileInfo had an empty
\* file name or an empty path, or a later message carried a FileInfo
ProtocolViolated ==
    /\ GrpcStarted
    /\ \/ call.first \in {"eof", "chunk"}
       \/ call.first = "info" /\ (call.fileName = <<>> \/ call.path = <<>>)
       \/ call.later

\* ------------------------------------------------------------------------
\* C21 (SpecGrpc): a stream whose first message carries no FileInfo, whose FileInfo has
\* an empty file name or an empty path, or in which a message after the first carries a
\* FileInfo, is answered InvalidArgument, and service.UploadFile is not called for it
\* ------------------------------------------------------------------------
C21_ProtocolRejected ==
    ProtocolViolated =>
        /\ pc = "gdone"
        /\ res.grpc = "InvalidArgument"
        /\ ~call.invoked
        /\ res.line = 0 /\ up = NoUp

\* a FileInfo after a FileInfo and a chunk has been refused
C21_Witness ==
    /\ ProtocolViolated
    /\ call.later /\ call.msgs = 3 /\ call.first = "info"
    /\ res.grpc = "InvalidArgument"
    /\ pc = "gdone"

\* ------------------------------------------------------------------------
\* the upload has read a file name with a ".." segment
\* ------------------------------------------------------------------------
TraversalFileName ==
    /\ call.op = "upload"
    /\ pc \in {"extract", "done"}
    /\ call.fileName # <<>>
    /\ HasDotDot(call.fileName)

\* ------------------------------------------------------------------------
\* C22 (SpecDispatch), as the claim states it: an upload whose file name holds a
\* traversal segment fails, and the filesystem, the target directory with it, is as it
\* was before the upload, in merge mode and in replace mode
\* ------------------------------------------------------------------------
C22_BadFileNameLeavesTarget ==
    TraversalFileName => (fs = pre /\ (pc = "done" => ~res.ok))

\* ------------------------------------------------------------------------
\* both validations have been given the same path
\* ------------------------------------------------------------------------
BothDone == call.op = "both" /\ pc = "done"

\* ------------------------------------------------------------------------
\* C23 (SpecBoth), as the claim states it: for every destination path and prefix,
\* UploadFile's validation accepts the path exactly when ResolveAndValidatePath does, and
\* when both accept they name the same absolute directory
\* ------------------------------------------------------------------------
C23_OneTraversalGate ==
    BothDone =>
        /\ res.ok <=> res.upOk
        /\ (res.ok /\ res.upOk) => res.path = res.upPath

\* ------------------------------------------------------------------------
\* the place a client path names under the base: an absolute path itself, a relative
\* one joined to the base, canonicalized
\* ------------------------------------------------------------------------
CanonicalLocation(path) == IF IsAbs(path) THEN Clean(path) ELSE Join(EffectiveBase, path)

\* ------------------------------------------------------------------------
\* C24 (SpecResolve), as the claim states it: under a prefix that is a directory, every
\* client path whose canonical form stays in the prefix, relative or absolute, whatever
\* separators, "." and ".." segments it is written with, and also when its first segment
\* only begins with two dots, is accepted and resolves to its canonical place
\* ------------------------------------------------------------------------
C24_InsidePathsAccepted ==
    (call.op = "resolve" /\ pc = "done" /\ PrefixIsDir /\ StaysInBase(call.path)) =>
        (res.ok /\ res.path = CanonicalLocation(call.path))

\* ------------------------------------------------------------------------
\* what the prefix is on the filesystem F: "ok" for a directory
\* ------------------------------------------------------------------------
PrefixStateIn(F) ==
    CASE Stat(F, CleanedPathPrefix(prefixEnv)) = "dir" -> "ok"
      [] Stat(F, CleanedPathPrefix(prefixEnv)) = "notexist" -> "notfound"
      [] OTHER -> "notdir"

\* a request of the sequence has returned
RequestDone == pc = "done" /\ call.op \in {"resolve", "upload"} /\ "prev" \in DOMAIN call

\* ------------------------------------------------------------------------
\* C25 (SpecRequests): in every sequence of resolve and upload requests with changes of
\* the prefix between them, the outcome of each request's check of the prefix is what
\* the prefix is on the filesystem when that request begins (missing, no directory, or
\* a directory), whatever the request before it came to; an upload that goes on after
\* its validation began on a prefix that was a directory
\* ------------------------------------------------------------------------
C25_PrefixCheckedOnEveryRequest ==
    /\ RequestDone =>
          \/ PrefixOutcome(call.op, res) = "unchecked"
          \/ PrefixOutcome(call.op, res) = PrefixStateIn(pre)
    /\ pc \in {"remove", "mkdir", "dispatch", "extract"} => PrefixStateIn(pre) = "ok"

\* a request found the prefix missing after the request before it had found it, and
\* the other way round a request found the prefix after it had been missing or a file
C25_Witness ==
    /\ RequestDone
    /\ call.prev = "notdir"
    /\ PrefixOutcome(call.op, res) = "ok"
    /\ call.op = "upload" /\ res.ok

C25_WitnessGone ==
    /\ RequestDone
    /\ call.prev = "ok"
    /\ PrefixOutcome(call.op, res) = "notfound"

\* ------------------------------------------------------------------------
\* the filesystem apart from the temporary file of the gRPC upload
\* ------------------------------------------------------------------------
FsApartFromTemp == Without(fs, {Key(TempFile)})

\* ------------------------------------------------------------------------
\* C26 (SpecGrpc): while the gRPC upload receives the stream, and until it has received
\* its end, nothing but the temporary file is created, removed or written; when the
\* upload returns without having called the service (receiving failed, or the stream
\* broke the protocol) the filesystem is what it was before the call; and whenever the
\* upload has returned the temporary file is gone
\* ------------------------------------------------------------------------
C26_NothingTouchedBeforeEndOfStream ==
    GrpcStarted =>
        /\ pc \in {"recv", "call"} => FsApartFromTemp = pre
        /\ ~call.invoked => FsApartFromTemp = pre
        /\ (pc = "gdone" /\ ~call.invoked) => fs = pre
        /\ pc = "gdone" => Key(TempFile) \notin DOMAIN fs

\* receiving failed after the FileInfo and a chunk: the chunk had been written to the
\* temporary file, which is gone
C26_Witness ==
    /\ GrpcStarted
    /\ pc = "gdone"
    /\ ~call.invoked
    /\ call.first = "info" /\ call.msgs = 2 /\ ~call.later
    /\ res.grpc = "Internal"
    /\ fs = pre

\* an upload that went through the service has returned, the target written and the
\* temporary file gone
C26_WitnessServed ==
    /\ GrpcStarted /\ pc = "gdone" /\ call.invoked /\ res.ok /\ fs # pre

\* ------------------------------------------------------------------------
\* C27: requests served at once
\* ------------------------------------------------------------------------
\* neither directory is at or below the other
Unrelated(d1, d2) == ~IsUnder(Key(d1), Key(d2)) /\ ~IsUnder(Key(d2), Key(d1))

\* the other upload has not begun, or its target is unrelated to that of i
Apart(i, j) == pc[j] = "idle" \/ Unrelated(up[i].dir, up[j].dir)

\* what the upload i returns when it is served alone on the filesystem before the requests
Alone(i) == UploadFile(pre, call[i].path, call[i].isPut, call[i].fileName, call[i].payload)

\* the upload i writes the archive of the files a and d/b
TwoFileArchive(i) == call[i].op = "upload" /\ Len(call[i].payload.entries) = 2

C27_ListingSeesNoDirectory ==
    /\ pc["a"] = "mkdir" /\ call["a"].isPut /\ up["a"].dir = <<"/","p","/","p">>
    /\ pc["b"] = "idle"
    /\ call["list"].op = "list"
    /\ ~res["list"].ret.ok
    /\ Key(<<"/","p","/","p">>) \in DOMAIN pre /\ Key(<<"/","p","/","p">>) \notin DOMAIN fs

\* while the replace-mode upload a has extracted the first of its two entries, the listing
\* of /p/p holds the file a and not the directory d
C27_ListingSeesPart ==
    /\ pc["a"] = "extract" /\ call["a"].isPut /\ up["a"].dir = <<"/","p","/","p">>
    /\ TwoFileArchive("a") /\ Len(up["a"].rest) = 1
    /\ pc["b"] = "idle"
    /\ res["list"].ret.ok
    /\ {e.Name : e \in res["list"].ret.entries} = {"a"}

\* the upload a of the files a and d/b to /p/p returned success, and the file a was not in
\* /p/p when it returned: the replace-mode upload b to /p/p removed it in between
C27_SuccessWithLostEntry ==
    /\ pc["a"] = "done" /\ res["a"].ret.ok /\ up["a"].dir = <<"/","p","/","p">>
    /\ TwoFileArchive("a")
    /\ up["b"].dir = <<"/","p","/","p">> /\ call["b"].isPut
    /\ Key(<<"/","p","/","p","/","a">>) \notin DOMAIN res["a"].tree
    /\ Key(<<"/","p","/","p","/","d","/","b">>) \in DOMAIN res["a"].tree

\* ------------------------------------------------------------------------
\* C28 (SpecExtract): tar entries that are neither regular files nor directories
\* ------------------------------------------------------------------------
\* the header extractTar reads next is of another type and has a safe name
NextIsOtherEntry ==
    /\ call.op = "upload" /\ pc = "extract" /\ up.rest # <<>>
    /\ Head(up.rest).typ = "other" /\ ~UnsafeEntry(Head(up.rest))

\* every header of the archive is of another type and has a safe name, there is at least
\* one, and the stream ends well
OnlyOtherEntries ==
    /\ DecodedEntries # <<>>
    /\ \A i \in 1..Len(DecodedEntries) :
          DecodedEntries[i].typ = "other" /\ ~UnsafeEntry(DecodedEntries[i])

\* C28: the step of extractTar on an entry of another type with a safe name changes
\* nothing in the filesystem, returns no error and goes on to the next header, with the
\* entry counted as a processed header; and when an archive of such entries only has been
\* read to its end, the upload succeeds and has created nothing inside the target
C28_OtherEntriesIgnored ==
    [][/\ NextIsOtherEntry =>
              /\ fs' = fs
              /\ pc' = "extract"
              /\ res' = res
              /\ up' = [up EXCEPT !.rest = Tail(up.rest), !.seen = TRUE]
       /\ (call.op = "upload" /\ pc = "extract" /\ up.rest = <<>> /\ up.tail = "end" /\ OnlyOtherEntries) =>
              /\ pc' = "done"
              /\ res'.ok /\ res'.http = 200 /\ res'.grpc = "OK"
              /\ fs' = fs
              /\ \A k \in (DOMAIN fs') \ (DOMAIN pre) : ~InsideTarget(k)]_vars

\* an archive of one entry of another type was uploaded in merge mode to the directory
\* that held the file o: the upload succeeded and the directory holds the file o alone
C28_Witness ==
    /\ Extracted /\ res.ok /\ OnlyOtherEntries /\ ~call.isPut
    /\ up.dir = <<"/","p","/","p">>
    /\ {k \in DOMAIN fs : InsideTarget(k)} = {Key(<<"/","p","/","p","/","o">>)}
    /\ fs = pre

\* extraction went on after an entry of another type: the file a that follows it is there
C28_WitnessGoesOn ==
    /\ Extracted /\ res.ok /\ Len(DecodedEntries) = 2
    /\ DecodedEntries[1].typ = "other" /\ DecodedEntries[2] = Entry(<<"a">>, "reg", "full")
    /\ EntryKey(DecodedEntries[2]) \in DOMAIN fs
    /\ EntryKey(DecodedEntries[1]) \notin DOMAIN fs

\* ------------------------------------------------------------------------
\* C29 (SpecStatus): the status of a failure and the text of the request
\* ------------------------------------------------------------------------
\* an upload has failed at the line the upload before it failed at
SameFailureAgain == call.op = "upload" /\ pc = "done" /\ ~res.ok /\ ~call.prev.ok /\ call.prev.line = res.line

\* C29: two uploads that fail at the same place, for the same kind of reason, get the
\* same HTTP status and the same gRPC code
C29_StatusByFailureKind ==
    SameFailureAgain => (res.http = call.prev.http /\ res.grpc = call.prev.grpc)

\* ------------------------------------------------------------------------
\* C30 (Spec): the prefix directory during an upload
\* ------------------------------------------------------------------------
\* an upload under a prefix that was a directory before the call has passed the
\* validation of its destination
AcceptedUnderPrefix ==
    /\ call.op = "upload" /\ NonTrivialPrefix
    /\ Stat(pre, EffectiveBase) = "dir"
    /\ up.dir # <<>>

\* C30: in every state of an upload accepted under an existing prefix, while it is at
\* work and after it has returned, the prefix is a directory
C30_PrefixNeverRemoved == AcceptedUnderPrefix => Stat(fs, EffectiveBase) = "dir"

====
